---- MODULE Spec2Model ----
(***************************************************************************)
(* SketchDDD visual builder: the domain store (web/src/stores), the        *)
(* validation rules run over a bounded context, and the components that    *)
(* call them (canvas, palette, sidebar, template browser, validation       *)
(* panel).                                                                 *)
(*                                                                         *)
(* Identifiers produced by crypto.randomUUID() are modelled by a counter   *)
(* (nextId): every call yields a value never seen before.  Names are       *)
(* sequences of one-character strings so that toLowerCase() and the        *)
(* PascalCase regular expression are computed, not assumed.                *)
(***************************************************************************)
EXTENDS Integers, Sequences, FiniteSets, TLC

(***************************************************************************)
(* Bounds of the model.                                                    *)
(***************************************************************************)
\* number of history-recording edits in a run
MaxEdits == 1

(***************************************************************************)
(* Identifiers.                                                            *)
(***************************************************************************)
\* the empty string used for an aggregate without a root (rootId: '')
EmptyId == 0
\* activeContextId: null
NullId == 0
\* an identifier that was never generated (a call with a stale or wrong id)
NoSuchId == 99

(***************************************************************************)
(* Characters and strings.                                                 *)
(***************************************************************************)
UpperCase ==
    <<"A","B","C","D","E","F","G","H","I","J","K","L","M",
      "N","O","P","Q","R","S","T","U","V","W","X","Y","Z">>

LowerCase ==
    <<"a","b","c","d","e","f","g","h","i","j","k","l","m",
      "n","o","p","q","r","s","t","u","v","w","x","y","z">>

DigitChars == {"0","1","2","3","4","5","6","7","8","9"}

Range(s) == { s[i] : i \in DOMAIN s }

\* the lower-case letter of every upper-case letter
LowerOf == [ c \in Range(UpperCase) |->
               LowerCase[CHOOSE i \in DOMAIN UpperCase : UpperCase[i] = c] ]

\* String.prototype.toLowerCase on one character
CharToLower(c) == IF c \in DOMAIN LowerOf THEN LowerOf[c] ELSE c

\* String.prototype.toLowerCase
toLowerCase(s) == [ i \in DOMAIN s |-> CharToLower(s[i]) ]

\* the character classes [A-Z] and [a-zA-Z0-9]
UpperChars == Range(UpperCase)

AlnumChars == Range(UpperCase) \cup Range(LowerCase) \cup DigitChars

\* /^[A-Z][a-zA-Z0-9]*$/.test(s)
pascalCaseRegex(s) ==
    /\ Len(s) >= 1
    /\ s[1] \in UpperChars
    /\ \A i \in 2..Len(s) : s[i] \in AlnumChars

\* Array.prototype.filter
Filter(s, keep(_)) == SelectSeq(s, keep)

\* errors.push(...list) for every list of a sequence of lists, in order
RECURSIVE Flatten(_)
Flatten(ss) ==
    IF ss = << >> THEN << >> ELSE Head(ss) \o Flatten(Tail(ss))

(***************************************************************************)
(* Records keyed by id.  A JavaScript object with string keys enumerates   *)
(* its entries in insertion order, so Record<string, T> is a sequence of   *)
(* entries, each carrying its key in the field id.                         *)
(***************************************************************************)
HasKey(entries, id) == \E i \in DOMAIN entries : entries[i].id = id

IndexOf(entries, id) == CHOOSE i \in DOMAIN entries : entries[i].id = id

Lookup(entries, id) == entries[IndexOf(entries, id)]

Keys(entries) == { entries[i].id : i \in DOMAIN entries }

\* delete obj[id]
DeleteKey(entries, id) == Filter(entries, LAMBDA e : e.id # id)

(***************************************************************************)
(* Domain types (types/index.ts).                                          *)
(***************************************************************************)
Field(id, name, type, optional) ==
    [ id |-> id, name |-> name, type |-> type, optional |-> optional ]

EnumVariant(id, name) == [ id |-> id, name |-> name ]

\* DomainNode: one record shape for the four kinds; the properties a kind
\* does not have are empty and are never read for that kind
EntityNode(name, fields) ==
    [ kind |-> "entity", name |-> name, fields |-> fields,
      variants |-> << >>, rootId |-> EmptyId, memberIds |-> << >> ]

ValueNode(name, fields) ==
    [ kind |-> "value", name |-> name, fields |-> fields,
      variants |-> << >>, rootId |-> EmptyId, memberIds |-> << >> ]

EnumNode(name, variants) ==
    [ kind |-> "enum", name |-> name, fields |-> << >>,
      variants |-> variants, rootId |-> EmptyId, memberIds |-> << >> ]

AggregateNode(name, rootId, memberIds) ==
    [ kind |-> "aggregate", name |-> name, fields |-> << >>,
      variants |-> << >>, rootId |-> rootId, memberIds |-> memberIds ]

\* an entry of ContextData.nodes
NodeEntry(id, node) == [ id |-> id, node |-> node ]

Morphism(id, name, sourceId, targetId, cardinality) ==
    [ id |-> id, name |-> name, sourceId |-> sourceId,
      targetId |-> targetId, cardinality |-> cardinality ]

ContextData(id, name, nodes, morphisms) ==
    [ id |-> id, name |-> name, nodes |-> nodes, morphisms |-> morphisms ]

(***************************************************************************)
(* Validation rules (components/validation/validationRules).               *)
(***************************************************************************)
\* nodeId: undefined, field: undefined
Undefined == -1

createError(code, severity, nodeId, field) ==
    [ code |-> code, severity |-> severity, nodeId |-> nodeId, field |-> field ]

\* Object.entries(context.nodes).forEach(callback), the callback returning
\* what it pushes
ForEachNode(context, callback(_, _)) ==
    Flatten([ i \in DOMAIN context.nodes |->
                callback(context.nodes[i].id, context.nodes[i].node) ])

\* context.morphisms.forEach(callback)
ForEachMorphism(context, callback(_)) ==
    Flatten([ i \in DOMAIN context.morphisms |-> callback(context.morphisms[i]) ])

\* hasIdField looking at the name of the fields only
hasIdField_nameOnly(entity) ==
    \E i \in DOMAIN entity.fields :
        toLowerCase(entity.fields[i].name) = <<"i", "d">>

hasIdField(entity) ==
    \E i \in DOMAIN entity.fields :
        \/ toLowerCase(entity.fields[i].name) = <<"i", "d">>
        \/ entity.fields[i].type = "UUID"

entityNeedsIdentity(context) ==
    ForEachNode(context, LAMBDA id, node :
        IF node.kind # "entity" THEN << >>
        ELSE IF ~hasIdField(node)
             THEN << createError("ENTITY_NO_IDENTITY", "warning", id, Undefined) >>
             ELSE << >>)

\* nodeNotEmpty with the enum branch copying the severity of the branch
\* above it
nodeNotEmpty_enumWarning(context) ==
    ForEachNode(context, LAMBDA id, node :
        (IF node.kind \in {"entity", "value"} /\ ~(Len(node.fields) > 0)
         THEN << createError("NODE_EMPTY", "warning", id, Undefined) >>
         ELSE << >>)
        \o
        (IF node.kind = "enum" /\ ~(Len(node.variants) > 0)
         THEN << createError("ENUM_NO_VARIANTS", "warning", id, Undefined) >>
         ELSE << >>))

nodeNotEmpty(context) ==
    ForEachNode(context, LAMBDA id, node :
        (IF node.kind \in {"entity", "value"} /\ ~(Len(node.fields) > 0)
         THEN << createError("NODE_EMPTY", "warning", id, Undefined) >>
         ELSE << >>)
        \o
        (IF node.kind = "enum" /\ ~(Len(node.variants) > 0)
         THEN << createError("ENUM_NO_VARIANTS", "error", id, Undefined) >>
         ELSE << >>))

\* aggregateHasValidRoot without the final test of the root's kind
aggregateHasValidRoot_anyKind(context) ==
    ForEachNode(context, LAMBDA id, node :
        IF node.kind # "aggregate" THEN << >>
        ELSE IF node.rootId = EmptyId
             THEN << createError("AGGREGATE_NO_ROOT", "error", id, Undefined) >>
        ELSE IF ~HasKey(context.nodes, node.rootId)
             THEN << createError("AGGREGATE_INVALID_ROOT", "error", id, Undefined) >>
        ELSE << >>)

aggregateHasValidRoot(context) ==
    ForEachNode(context, LAMBDA id, node :
        IF node.kind # "aggregate" THEN << >>
        ELSE IF node.rootId = EmptyId
             THEN << createError("AGGREGATE_NO_ROOT", "error", id, Undefined) >>
        ELSE IF ~HasKey(context.nodes, node.rootId)
             THEN << createError("AGGREGATE_INVALID_ROOT", "error", id, Undefined) >>
        ELSE IF Lookup(context.nodes, node.rootId).node.kind # "entity"
             THEN << createError("AGGREGATE_ROOT_NOT_ENTITY", "error", id, Undefined) >>
        ELSE << >>)

\* morphismHasValidEndpoints testing the target only when the source exists
morphismHasValidEndpoints_elseIf(context) ==
    ForEachMorphism(context, LAMBDA morphism :
        IF ~HasKey(context.nodes, morphism.sourceId)
        THEN << createError("MORPHISM_INVALID_SOURCE", "error", Undefined, morphism.id) >>
        ELSE IF ~HasKey(context.nodes, morphism.targetId)
        THEN << createError("MORPHISM_INVALID_TARGET", "error", Undefined, morphism.id) >>
        ELSE << >>)

morphismHasValidEndpoints(context) ==
    ForEachMorphism(context, LAMBDA morphism :
        (IF ~HasKey(context.nodes, morphism.sourceId)
         THEN << createError("MORPHISM_INVALID_SOURCE", "error", Undefined, morphism.id) >>
         ELSE << >>)
        \o
        (IF ~HasKey(context.nodes, morphism.targetId)
         THEN << createError("MORPHISM_INVALID_TARGET", "error", Undefined, morphism.id) >>
         ELSE << >>))

\* the Map built by uniqueNames: its keys in insertion order, each with the
\* ids pushed for it in node order
NamesMap(context) ==
    LET nodes == context.nodes
        lowered == [ i \in DOMAIN nodes |-> toLowerCase(nodes[i].node.name) ]
        lower(i) == lowered[i]
        first == Filter([ i \in DOMAIN nodes |-> i ],
                        LAMBDA i : \A j \in 1..(i - 1) : lower(j) # lower(i))
    IN  [ k \in DOMAIN first |->
            LET same == Filter([ i \in DOMAIN nodes |-> i ],
                               LAMBDA i : lower(i) = lower(first[k]))
            IN  [ i \in DOMAIN same |-> nodes[same[i]].id ] ]

uniqueNames(context) ==
    LET names == NamesMap(context)
    IN  Flatten([ k \in DOMAIN names |->
            IF Len(names[k]) > 1
            THEN [ i \in DOMAIN names[k] |->
                     createError("DUPLICATE_NAME", "warning", names[k][i], Undefined) ]
            ELSE << >> ])

namingConventions(context) ==
    ForEachNode(context, LAMBDA id, node :
        IF ~pascalCaseRegex(node.name)
        THEN << createError("NAMING_CONVENTION", "info", id, Undefined) >>
        ELSE << >>)

connectedNodes(context) ==
    { context.morphisms[i].sourceId : i \in DOMAIN context.morphisms }
    \cup { context.morphisms[i].targetId : i \in DOMAIN context.morphisms }
    \cup UNION { LET e == context.nodes[i]
                 IN  IF e.node.kind = "aggregate"
                     THEN {e.id}
                          \cup (IF e.node.rootId # EmptyId THEN {e.node.rootId} ELSE {})
                          \cup Range(e.node.memberIds)
                     ELSE {}
                 : i \in DOMAIN context.nodes }

noOrphanNodes(context) ==
    LET connected == connectedNodes(context)
    IN  ForEachNode(context, LAMBDA id, node :
            IF node.kind = "aggregate" THEN << >>
            ELSE IF id \notin connected
                 THEN << createError("ORPHAN_NODE", "info", id, Undefined) >>
                 ELSE << >>)

\* noCircularAggregates with the self-root comparison inverted
noCircularAggregates_inverted(context) ==
    ForEachNode(context, LAMBDA id, node :
        IF node.kind # "aggregate" THEN << >>
        ELSE (IF node.rootId # id
              THEN << createError("AGGREGATE_SELF_ROOT", "error", id, Undefined) >>
              ELSE << >>)
             \o
             (IF id \in Range(node.memberIds)
              THEN << createError("AGGREGATE_SELF_MEMBER", "error", id, Undefined) >>
              ELSE << >>))

noCircularAggregates(context) ==
    ForEachNode(context, LAMBDA id, node :
        IF node.kind # "aggregate" THEN << >>
        ELSE (IF node.rootId = id
              THEN << createError("AGGREGATE_SELF_ROOT", "error", id, Undefined) >>
              ELSE << >>)
             \o
             (IF id \in Range(node.memberIds)
              THEN << createError("AGGREGATE_SELF_MEMBER", "error", id, Undefined) >>
              ELSE << >>))

\* the results of the rules, in the order of the validationRules array
validationRules(context) ==
    << entityNeedsIdentity(context),
       nodeNotEmpty(context),
       aggregateHasValidRoot(context),
       morphismHasValidEndpoints(context),
       uniqueNames(context),
       namingConventions(context),
       noOrphanNodes(context),
       noCircularAggregates(context) >>

\* validateContext returning at the first rule that reports anything
validateContext_firstFailure(context) ==
    LET results == validationRules(context)
        failing == { i \in DOMAIN results : results[i] # << >> }
    IN  IF failing = {} THEN << >>
        ELSE results[CHOOSE i \in failing : \A j \in failing : i <= j]

validateContext(context) == Flatten(validationRules(context))

(***************************************************************************)
(* The domain store (stores/domainStore.ts).                               *)
(***************************************************************************)
VARIABLES
    state,        \* DomainState: the data fields of the zustand store
    history,      \* the module-level HistoryState
    nextId,       \* the next value of generateId() / crypto.randomUUID()
    edits,        \* number of history-recording edits performed so far
    view,         \* what the validation components last rendered
    core          \* the model given to the core validators and their diagnostics

vars == << state, history, nextId, edits, view, core >>

MAX_HISTORY == 50

initialState ==
    [ activeContextId |-> NullId,
      contexts |-> << >>,
      contextMaps |-> << >>,
      selectedNodeIds |-> << >>,
      selectedEdgeIds |-> << >>,
      validationResult |-> [ present |-> FALSE ],
      isPaletteOpen |-> TRUE,
      isPropertiesPanelOpen |-> TRUE ]

\* saveToHistory that leaves the future as it is
saveToHistory_keepFuture(h, s) ==
    LET pushed == Append(h.past, s)
    IN  [ past |-> IF Len(pushed) > MAX_HISTORY THEN Tail(pushed) ELSE pushed,
          future |-> h.future ]

\* saveToHistory that drops the snapshot it has just pushed
saveToHistory_dropNewest(h, s) ==
    LET pushed == Append(h.past, s)
    IN  [ past |-> IF Len(pushed) > MAX_HISTORY THEN h.past ELSE pushed,
          future |-> << >> ]

\* history.past.push(snapshot); drop the oldest beyond MAX_HISTORY; clear future
saveToHistory(h, s) ==
    LET pushed == Append(h.past, s)
    IN  [ past |-> IF Len(pushed) > MAX_HISTORY THEN Tail(pushed) ELSE pushed,
          future |-> << >> ]

\* state.contexts[contextId] after applying change to it
WithContext(s, contextId, change(_)) ==
    [ s EXCEPT !.contexts =
        [ i \in DOMAIN s.contexts |->
            IF s.contexts[i].id = contextId THEN change(s.contexts[i])
            ELSE s.contexts[i] ] ]

\* context.nodes[nodeId].node after applying change to it
WithNode(context, nodeId, change(_)) ==
    [ context EXCEPT !.nodes =
        [ i \in DOMAIN context.nodes |->
            IF context.nodes[i].id = nodeId
            THEN [ context.nodes[i] EXCEPT !.node = change(context.nodes[i].node) ]
            ELSE context.nodes[i] ] ]

\* Object.assign(target, updates)
ObjectAssign(target, updates) ==
    [ k \in DOMAIN target |-> IF k \in DOMAIN updates THEN updates[k] ELSE target[k] ]

createContext(s, id, name) ==
    [ s EXCEPT !.contexts = Append(s.contexts, ContextData(id, name, << >>, << >>)),
               !.activeContextId = id ]

\* deleteContext that leaves activeContextId as it is
deleteContext_keepActive(s, contextId) ==
    [ s EXCEPT
        !.contexts = DeleteKey(s.contexts, contextId),
        !.contextMaps = Filter(s.contextMaps, LAMBDA m :
                            m.sourceContextId # contextId
                            /\ m.targetContextId # contextId) ]

\* deleteContext removing only the context maps that start at the context
deleteContext_sourceOnly(s, contextId) ==
    LET remaining == DeleteKey(s.contexts, contextId)
    IN  [ s EXCEPT
            !.contexts = remaining,
            !.contextMaps = Filter(s.contextMaps, LAMBDA m :
                                m.sourceContextId # contextId),
            !.activeContextId =
                IF s.activeContextId = contextId
                THEN (IF Len(remaining) > 0 THEN remaining[1].id ELSE NullId)
                ELSE s.activeContextId ]

deleteContext(s, contextId) ==
    LET remaining == DeleteKey(s.contexts, contextId)
    IN  [ s EXCEPT
            !.contexts = remaining,
            !.contextMaps = Filter(s.contextMaps, LAMBDA m :
                                m.sourceContextId # contextId
                                /\ m.targetContextId # contextId),
            !.activeContextId =
                IF s.activeContextId = contextId
                THEN (IF Len(remaining) > 0 THEN remaining[1].id ELSE NullId)
                ELSE s.activeContextId ]

setActiveContext(s, contextId) ==
    [ s EXCEPT !.activeContextId = contextId,
               !.selectedNodeIds = << >>,
               !.selectedEdgeIds = << >> ]

renameContext(s, contextId, name) ==
    IF HasKey(s.contexts, contextId)
    THEN WithContext(s, contextId, LAMBDA c : [ c EXCEPT !.name = name ])
    ELSE s

addNode(s, contextId, id, node) ==
    IF HasKey(s.contexts, contextId)
    THEN WithContext(s, contextId, LAMBDA c :
            [ c EXCEPT !.nodes = Append(c.nodes, NodeEntry(id, node)) ])
    ELSE s

updateNode(s, contextId, nodeId, updates) ==
    IF HasKey(s.contexts, contextId)
       /\ HasKey(Lookup(s.contexts, contextId).nodes, nodeId)
    THEN WithContext(s, contextId, LAMBDA c :
            WithNode(c, nodeId, LAMBDA n : ObjectAssign(n, updates)))
    ELSE s

\* deleteNode removing only the morphisms that start at the node
deleteNode_sourceOnly(s, contextId, nodeId) ==
    IF HasKey(s.contexts, contextId)
    THEN [ WithContext(s, contextId, LAMBDA c :
              [ c EXCEPT
                  !.nodes = DeleteKey(c.nodes, nodeId),
                  !.morphisms = Filter(c.morphisms, LAMBDA m : m.sourceId # nodeId) ])
           EXCEPT !.selectedNodeIds =
                    Filter(s.selectedNodeIds, LAMBDA id : id # nodeId) ]
    ELSE s

\* deleteNode leaving the morphisms alone
deleteNode_noCascade(s, contextId, nodeId) ==
    IF HasKey(s.contexts, contextId)
    THEN [ WithContext(s, contextId, LAMBDA c :
              [ c EXCEPT !.nodes = DeleteKey(c.nodes, nodeId) ])
           EXCEPT !.selectedNodeIds =
                    Filter(s.selectedNodeIds, LAMBDA id : id # nodeId) ]
    ELSE s

deleteNode(s, contextId, nodeId) ==
    IF HasKey(s.contexts, contextId)
    THEN [ WithContext(s, contextId, LAMBDA c :
              [ c EXCEPT
                  !.nodes = DeleteKey(c.nodes, nodeId),
                  !.morphisms = Filter(c.morphisms, LAMBDA m :
                                    m.sourceId # nodeId /\ m.targetId # nodeId) ])
           EXCEPT !.selectedNodeIds =
                    Filter(s.selectedNodeIds, LAMBDA id : id # nodeId) ]
    ELSE s

\* state.contexts[contextId]?.nodes[nodeId] exists and has one of the kinds
NodeOfKind(s, contextId, nodeId, kinds) ==
    /\ HasKey(s.contexts, contextId)
    /\ HasKey(Lookup(s.contexts, contextId).nodes, nodeId)
    /\ Lookup(Lookup(s.contexts, contextId).nodes, nodeId).node.kind \in kinds

addField(s, contextId, nodeId, id, field) ==
    IF NodeOfKind(s, contextId, nodeId, {"entity", "value"})
    THEN WithContext(s, contextId, LAMBDA c : WithNode(c, nodeId, LAMBDA n :
            [ n EXCEPT !.fields =
                Append(n.fields, Field(id, field.name, field.type, field.optional)) ]))
    ELSE s

deleteField(s, contextId, nodeId, fieldId) ==
    IF NodeOfKind(s, contextId, nodeId, {"entity", "value"})
    THEN WithContext(s, contextId, LAMBDA c : WithNode(c, nodeId, LAMBDA n :
            [ n EXCEPT !.fields = Filter(n.fields, LAMBDA f : f.id # fieldId) ]))
    ELSE s

addVariant(s, contextId, nodeId, id, variant) ==
    IF NodeOfKind(s, contextId, nodeId, {"enum"})
    THEN WithContext(s, contextId, LAMBDA c : WithNode(c, nodeId, LAMBDA n :
            [ n EXCEPT !.variants = Append(n.variants, EnumVariant(id, variant.name)) ]))
    ELSE s

deleteVariant(s, contextId, nodeId, variantId) ==
    IF NodeOfKind(s, contextId, nodeId, {"enum"})
    THEN WithContext(s, contextId, LAMBDA c : WithNode(c, nodeId, LAMBDA n :
            [ n EXCEPT !.variants = Filter(n.variants, LAMBDA v : v.id # variantId) ]))
    ELSE s

addMorphism(s, contextId, id, morphism) ==
    IF HasKey(s.contexts, contextId)
    THEN WithContext(s, contextId, LAMBDA c :
            [ c EXCEPT !.morphisms =
                Append(c.morphisms,
                       Morphism(id, morphism.name, morphism.sourceId,
                                morphism.targetId, morphism.cardinality)) ])
    ELSE s

deleteMorphism(s, contextId, morphismId) ==
    IF HasKey(s.contexts, contextId)
    THEN [ WithContext(s, contextId, LAMBDA c :
              [ c EXCEPT !.morphisms = DeleteKey(c.morphisms, morphismId) ])
           EXCEPT !.selectedEdgeIds =
                    Filter(s.selectedEdgeIds, LAMBDA id : id # morphismId) ]
    ELSE s

\* undo restoring the contexts of the snapshot only
undo_contextsOnly(h, s) ==
    [ state |-> [ s EXCEPT !.contexts = h.past[Len(h.past)].contexts ],
      history |-> [ past |-> SubSeq(h.past, 1, Len(h.past) - 1),
                    future |-> Append(h.future, s) ] ]

\* const previous = history.past.pop(); history.future.push(current); set(previous)
undo(h, s) ==
    [ state |-> h.past[Len(h.past)],
      history |-> [ past |-> SubSeq(h.past, 1, Len(h.past) - 1),
                    future |-> Append(h.future, s) ] ]

\* redo that does not push the current state onto the past
redo_noPush(h, s) ==
    [ state |-> h.future[Len(h.future)],
      history |-> [ past |-> h.past,
                    future |-> SubSeq(h.future, 1, Len(h.future) - 1) ] ]

\* const next = history.future.pop(); history.past.push(current); set(next)
redo(h, s) ==
    [ state |-> h.future[Len(h.future)],
      history |-> [ past |-> Append(h.past, s),
                    future |-> SubSeq(h.future, 1, Len(h.future) - 1) ] ]

(***************************************************************************)
(* Templates (templates/ecommerce.ts).  The ids 'f<n>' and 'v<n>' of the   *)
(* template's fields and variants are written 1000+n and 2000+n.           *)
(***************************************************************************)
ecommerceTemplate ==
    [ name |-> <<"E","-","C","o","m","m","e","r","c","e">>,
      nodes |-> <<
        NodeEntry("customer-entity",
          EntityNode(<<"C","u","s","t","o","m","e","r">>,
             << Field(1001, <<"i","d">>, "UUID", FALSE),
                Field(1002, <<"e","m","a","i","l">>, "Email", FALSE),
                Field(1003, <<"n","a","m","e">>, "String", FALSE),
                Field(1004, <<"c","r","e","a","t","e","d","A","t">>, "DateTime", FALSE) >>)),
        NodeEntry("address-value",
          ValueNode(<<"A","d","d","r","e","s","s">>,
             << Field(1005, <<"s","t","r","e","e","t">>, "String", FALSE),
                Field(1006, <<"c","i","t","y">>, "String", FALSE),
                Field(1007, <<"p","o","s","t","a","l","C","o","d","e">>, "String", FALSE),
                Field(1008, <<"c","o","u","n","t","r","y">>, "String", FALSE) >>)),
        NodeEntry("product-entity",
          EntityNode(<<"P","r","o","d","u","c","t">>,
             << Field(1009, <<"i","d">>, "UUID", FALSE),
                Field(1010, <<"s","k","u">>, "String", FALSE),
                Field(1011, <<"n","a","m","e">>, "String", FALSE),
                Field(1012, <<"d","e","s","c","r","i","p","t","i","o","n">>, "String", TRUE),
                Field(1013, <<"p","r","i","c","e">>, "Decimal", FALSE) >>)),
        NodeEntry("money-value",
          ValueNode(<<"M","o","n","e","y">>,
             << Field(1014, <<"a","m","o","u","n","t">>, "Decimal", FALSE),
                Field(1015, <<"c","u","r","r","e","n","c","y">>, "String", FALSE) >>)),
        NodeEntry("order-entity",
          EntityNode(<<"O","r","d","e","r">>,
             << Field(1016, <<"i","d">>, "UUID", FALSE),
                Field(1017, <<"o","r","d","e","r","N","u","m","b","e","r">>, "String", FALSE),
                Field(1018, <<"p","l","a","c","e","d","A","t">>, "DateTime", FALSE),
                Field(1019, <<"t","o","t","a","l","A","m","o","u","n","t">>, "Decimal", FALSE) >>)),
        NodeEntry("line-item-entity",
          EntityNode(<<"L","i","n","e","I","t","e","m">>,
             << Field(1020, <<"i","d">>, "UUID", FALSE),
                Field(1021, <<"q","u","a","n","t","i","t","y">>, "Int", FALSE),
                Field(1022, <<"u","n","i","t","P","r","i","c","e">>, "Decimal", FALSE) >>)),
        NodeEntry("order-status-enum",
          EnumNode(<<"O","r","d","e","r","S","t","a","t","u","s">>,
             << EnumVariant(2001, <<"P","e","n","d","i","n","g">>),
                EnumVariant(2002, <<"C","o","n","f","i","r","m","e","d">>),
                EnumVariant(2003, <<"S","h","i","p","p","e","d">>),
                EnumVariant(2004, <<"D","e","l","i","v","e","r","e","d">>),
                EnumVariant(2005, <<"C","a","n","c","e","l","l","e","d">>) >>)),
        NodeEntry("payment-entity",
          EntityNode(<<"P","a","y","m","e","n","t">>,
             << Field(1023, <<"i","d">>, "UUID", FALSE),
                Field(1024, <<"a","m","o","u","n","t">>, "Decimal", FALSE),
                Field(1025, <<"p","r","o","c","e","s","s","e","d","A","t">>, "DateTime", TRUE) >>)),
        NodeEntry("payment-status-enum",
          EnumNode(<<"P","a","y","m","e","n","t","S","t","a","t","u","s">>,
             << EnumVariant(2006, <<"P","e","n","d","i","n","g">>),
                EnumVariant(2007, <<"P","r","o","c","e","s","s","i","n","g">>),
                EnumVariant(2008, <<"C","o","m","p","l","e","t","e","d">>),
                EnumVariant(2009, <<"F","a","i","l","e","d">>),
                EnumVariant(2010, <<"R","e","f","u","n","d","e","d">>) >>)),
        NodeEntry("order-aggregate",
          AggregateNode(<<"O","r","d","e","r","A","g","g","r","e","g","a","t","e">>,
             "order-entity", << "line-item-entity" >>)) >>,
      morphisms |-> <<
        Morphism("m1", <<"s","h","i","p","p","i","n","g","A","d","d","r","e","s","s">>, "customer-entity", "address-value", "optional"),
        Morphism("m2", <<"b","i","l","l","i","n","g","A","d","d","r","e","s","s">>, "customer-entity", "address-value", "one"),
        Morphism("m3", <<"p","r","i","c","e">>, "product-entity", "money-value", "one"),
        Morphism("m4", <<"c","u","s","t","o","m","e","r">>, "order-entity", "customer-entity", "one"),
        Morphism("m5", <<"l","i","n","e","I","t","e","m","s">>, "order-entity", "line-item-entity", "many"),
        Morphism("m6", <<"p","r","o","d","u","c","t">>, "line-item-entity", "product-entity", "one"),
        Morphism("m7", <<"s","t","a","t","u","s">>, "order-entity", "order-status-enum", "one"),
        Morphism("m8", <<"p","a","y","m","e","n","t","s">>, "order-entity", "payment-entity", "many"),
        Morphism("m9", <<"s","t","a","t","u","s">>, "payment-entity", "payment-status-enum", "one") >> ]

templates == { ecommerceTemplate }

(***************************************************************************)
(* Inputs.                                                                 *)
(***************************************************************************)
Name_Order == <<"O","r","d","e","r">>
Name_order == <<"o","r","d","e","r">>
Name_LineItem == <<"L","i","n","e","I","t","e","m">>
Name_Status == <<"S","t","a","t","u","s">>
Name_OrderAggregate == <<"O","r","d","e","r","A","g","g","r","e","g","a","t","e">>
Name_Orders == <<"O","r","d","e","r","s">>

\* names typed into the properties panel or passed to the store
NodeNames == { Name_Order, Name_order }

\* `New${kind.charAt(0).toUpperCase() + kind.slice(1)}`
NewName(kind) ==
    CASE kind = "entity" -> <<"N","e","w","E","n","t","i","t","y">>
      [] kind = "value" -> <<"N","e","w","V","a","l","u","e">>
      [] kind = "enum" -> <<"N","e","w","E","n","u","m">>
      [] kind = "aggregate" -> <<"N","e","w","A","g","g","r","e","g","a","t","e">>

\* `Context${Object.keys(contexts).length + 1}`
ContextName(n) ==
    <<"C","o","n","t","e","x","t">>
        \o << <<"0","1","2","3","4","5","6","7","8","9">>[n + 1] >>

\* `${sourceNode.node.name.toLowerCase()}To${targetNode.node.name}`
morphismName(sourceNode, targetNode) ==
    toLowerCase(sourceNode.name) \o <<"T", "o">> \o targetNode.name

PaletteKinds == { "entity", "value", "enum", "aggregate" }

\* the node BuildingBlocks.handleAddBlock and Canvas.onDrop create for a kind;
\* id is the randomUUID() of its first field or variant
PaletteNode(kind, id) ==
    CASE kind = "entity" ->
            EntityNode(NewName(kind), << Field(id, <<"i","d">>, "UUID", FALSE) >>)
      [] kind = "value" -> ValueNode(NewName(kind), << >>)
      [] kind = "enum" ->
            EnumNode(NewName(kind), << EnumVariant(id, <<"V","a","r","i","a","n","t","1">>) >>)
      [] kind = "aggregate" -> AggregateNode(NewName(kind), EmptyId, << >>)

(***************************************************************************)
(* What the persist middleware restores at construction: contexts,         *)
(* contextMaps and activeContextId of an earlier session.                  *)
(***************************************************************************)
\* one context: two entities linked by one morphism, an enum with two
\* variants, an aggregate rooted at the first entity containing the second
GoldenContext ==
    ContextData(1, Name_Orders,
      << NodeEntry(2, EntityNode(Name_Order,
                        << Field(7, <<"i","d">>, "UUID", FALSE) >>)),
         NodeEntry(3, EntityNode(Name_LineItem,
                        << Field(8, <<"i","d">>, "UUID", FALSE) >>)),
         NodeEntry(4, EnumNode(Name_Status,
                        << EnumVariant(9, <<"P","e","n","d","i","n","g">>),
                           EnumVariant(10, <<"P","a","i","d">>) >>)),
         NodeEntry(5, AggregateNode(Name_OrderAggregate, 2, << 3 >>)) >>,
      << Morphism(6, <<"i","t","e","m","s">>, 2, 3, "many") >>)

\* one context drawn in an earlier session: the palette blocks (the entity
\* twice) dropped on the canvas, the first entity connected to the value
DraftContext ==
    ContextData(1, ContextName(1),
      << NodeEntry(3, PaletteNode("entity", 2)),
         NodeEntry(5, PaletteNode("entity", 4)),
         NodeEntry(6, PaletteNode("value", 6)),
         NodeEntry(8, PaletteNode("enum", 7)),
         NodeEntry(9, PaletteNode("aggregate", 9)) >>,
      << Morphism(10, morphismName(PaletteNode("entity", 2), PaletteNode("value", 6)),
                  3, 6, "one") >>)

PersistedModels ==
    { [ contexts |-> << >>, contextMaps |-> << >>, activeContextId |-> NullId,
        nextId |-> 1 ],
      [ contexts |-> << GoldenContext >>, contextMaps |-> << >>,
        activeContextId |-> 1, nextId |-> 11 ],
      [ contexts |-> << DraftContext >>, contextMaps |-> << >>,
        activeContextId |-> 1, nextId |-> 11 ] }

\* no model has been given to the core validators
NoCore == [ kind |-> "none", input |-> << >>, validated |-> FALSE, diagnostics |-> {} ]

\* nothing rendered yet, or what was rendered is out of date
NotRendered ==
    [ fresh |-> FALSE, errors |-> << >>,
      status |-> [ shown |-> FALSE, valid |-> FALSE,
                   errorCount |-> 0, warningCount |-> 0 ] ]

Init ==
    /\ \E m \in PersistedModels :
          /\ state = [ initialState EXCEPT
                         !.contexts = m.contexts,
                         !.contextMaps = m.contextMaps,
                         !.activeContextId = m.activeContextId ]
          /\ nextId = m.nextId
    /\ history = [ past |-> << >>, future |-> << >> ]
    /\ edits = 0
    /\ view = NotRendered
    /\ core = NoCore

(***************************************************************************)
(* Operations.  A change of the store makes what the validation components *)
(* rendered stale until React renders them again.                          *)
(***************************************************************************)
ActiveContext(s) ==
    IF s.activeContextId # NullId /\ HasKey(s.contexts, s.activeContextId)
    THEN << Lookup(s.contexts, s.activeContextId) >>
    ELSE << >>

ContextIds == Keys(state.contexts) \cup { NoSuchId }

NodeIdsOf(contextId) ==
    IF HasKey(state.contexts, contextId)
    THEN Keys(Lookup(state.contexts, contextId).nodes) ELSE {}

NodeIn(contextId, nodeId) == Lookup(Lookup(state.contexts, contextId).nodes, nodeId).node

Stale == view' = NotRendered

\* set((state) => { saveToHistory(state); ... }) with n identifiers generated
Edit(s2, n) ==
    /\ edits < MaxEdits
    /\ state' = s2
    /\ history' = saveToHistory(history, state)
    /\ nextId' = nextId + n
    /\ edits' = edits + 1
    /\ UNCHANGED core
    /\ Stale

Sidebar_handleCreateContext ==
    Edit(createContext(state, nextId, ContextName(Len(state.contexts) + 1)), 1)

Sidebar_handleFinishRename ==
    \E id \in Keys(state.contexts) :
        Edit(renameContext(state, id, Name_Orders), 0)

Sidebar_handleDelete ==
    \E id \in Keys(state.contexts) :
        Edit(deleteContext(state, id), 0)

BuildingBlocks_handleAddBlock ==
    \E kind \in PaletteKinds :
        /\ state.activeContextId # NullId
        /\ IF kind \in { "entity", "enum" }
           THEN Edit(addNode(state, state.activeContextId, nextId + 1,
                             PaletteNode(kind, nextId)), 2)
           ELSE Edit(addNode(state, state.activeContextId, nextId,
                             PaletteNode(kind, nextId)), 1)

\* updates passed to updateNode: a new name for any node, a root or a member
\* list for an aggregate
NodeUpdates(contextId, nodeId) ==
    { [ name |-> n ] : n \in NodeNames }
    \cup (IF nodeId \in NodeIdsOf(contextId)
             /\ NodeIn(contextId, nodeId).kind = "aggregate"
          THEN { [ rootId |-> r ] : r \in NodeIdsOf(contextId) \cup { EmptyId } }
               \cup { [ memberIds |-> << >> ] }
               \cup { [ memberIds |-> << m >> ] : m \in NodeIdsOf(contextId) }
          ELSE {})

UpdateNode ==
    \E contextId \in ContextIds :
      \E nodeId \in NodeIdsOf(contextId) \cup { NoSuchId } :
        \E updates \in NodeUpdates(contextId, nodeId) :
            Edit(updateNode(state, contextId, nodeId, updates), 0)

DeleteNode ==
    \E contextId \in ContextIds :
      \E nodeId \in NodeIdsOf(contextId) \cup { NoSuchId } :
        Edit(deleteNode(state, contextId, nodeId), 0)

\* the field the properties panel adds
NewField == [ name |-> <<"n","e","w","F","i","e","l","d">>, type |-> "String", optional |-> FALSE ]

AddField ==
    \E contextId \in ContextIds :
      \E nodeId \in NodeIdsOf(contextId) \cup { NoSuchId } :
        Edit(addField(state, contextId, nodeId, nextId, NewField), 1)

DeleteField ==
    \E contextId \in Keys(state.contexts) :
      \E nodeId \in NodeIdsOf(contextId) :
        \E fieldId \in Keys(NodeIn(contextId, nodeId).fields) :
            Edit(deleteField(state, contextId, nodeId, fieldId), 0)

\* the variant the properties panel adds
NewVariant == [ name |-> <<"N","e","w","V","a","r","i","a","n","t">> ]

AddVariant ==
    \E contextId \in ContextIds :
      \E nodeId \in NodeIdsOf(contextId) \cup { NoSuchId } :
        Edit(addVariant(state, contextId, nodeId, nextId, NewVariant), 1)

DeleteVariant ==
    \E contextId \in Keys(state.contexts) :
      \E nodeId \in NodeIdsOf(contextId) :
        \E variantId \in Keys(NodeIn(contextId, nodeId).variants) :
            Edit(deleteVariant(state, contextId, nodeId, variantId), 0)

\* a direct call of the store's addMorphism: the endpoints are not checked
AddMorphism ==
    \E contextId \in ContextIds :
      \E sourceId \in NodeIdsOf(contextId) \cup { NoSuchId } :
        \E targetId \in NodeIdsOf(contextId) \cup { NoSuchId } :
            Edit(addMorphism(state, contextId, nextId,
                             [ name |-> <<"i","t","e","m","s">>, sourceId |-> sourceId,
                               targetId |-> targetId, cardinality |-> "one" ]), 1)

DeleteMorphism ==
    \E contextId \in Keys(state.contexts) :
      \E morphismId \in Keys(Lookup(state.contexts, contextId).morphisms)
                          \cup { NoSuchId } :
            Edit(deleteMorphism(state, contextId, morphismId), 0)

Canvas_onConnect ==
    \E source \in NodeIdsOf(state.activeContextId) :
      \E target \in NodeIdsOf(state.activeContextId) :
        /\ state.activeContextId # NullId
        /\ Edit(addMorphism(state, state.activeContextId, nextId,
                  [ name |-> morphismName(NodeIn(state.activeContextId, source),
                                          NodeIn(state.activeContextId, target)),
                    sourceId |-> source, targetId |-> target,
                    cardinality |-> "one" ]), 1)

Undo ==
    /\ Len(history.past) > 0
    /\ state' = undo(history, state).state
    /\ history' = undo(history, state).history
    /\ Stale
    /\ UNCHANGED << nextId, edits, core >>

Redo ==
    /\ Len(history.future) > 0
    /\ state' = redo(history, state).state
    /\ history' = redo(history, state).history
    /\ Stale
    /\ UNCHANGED << nextId, edits, core >>

(***************************************************************************)
(* Template browser (components/templates/TemplateBrowser).                *)
(***************************************************************************)
\* nodeIdMap: the i-th node of the template gets the i-th generated id
nodeIdMap(template, firstId) ==
    [ oldId \in Keys(template.nodes) |-> firstId + IndexOf(template.nodes, oldId) - 1 ]

newNodes(template, firstId) ==
    LET map == nodeIdMap(template, firstId)
    IN  [ i \in DOMAIN template.nodes |->
            LET old == template.nodes[i].node
            IN  NodeEntry(map[template.nodes[i].id],
                  IF old.kind = "aggregate"
                  THEN AggregateNode(old.name,
                         IF old.rootId \in DOMAIN map THEN map[old.rootId] ELSE EmptyId,
                         LET kept == Filter(old.memberIds, LAMBDA id : id \in DOMAIN map)
                         IN  [ k \in DOMAIN kept |-> map[kept[k]] ])
                  ELSE old) ]

newMorphisms(template, firstNodeId, firstId) ==
    LET map == nodeIdMap(template, firstNodeId)
    IN  [ i \in DOMAIN template.morphisms |->
            LET m == template.morphisms[i]
            IN  Morphism(firstId + i - 1, m.name,
                         IF m.sourceId \in DOMAIN map THEN map[m.sourceId] ELSE m.sourceId,
                         IF m.targetId \in DOMAIN map THEN map[m.targetId] ELSE m.targetId,
                         m.cardinality) ]

\* handleUseTemplate writes store.contexts[contextId] on the object returned by
\* getState(), outside set().  The immer middleware may have frozen that
\* object: then the assignment throws and the handler stops after
\* createContext; otherwise the context receives the nodes and morphisms.
TemplateBrowser_handleUseTemplate ==
    \E template \in templates, frozen \in BOOLEAN :
        LET n == Len(template.nodes)
            k == Len(template.morphisms)
            contextId == nextId + n + k
            created == createContext(state, contextId, template.name)
            filled == WithContext(created, contextId, LAMBDA c :
                        [ c EXCEPT !.nodes = newNodes(template, nextId),
                                   !.morphisms = newMorphisms(template, nextId, nextId + n) ])
        IN  Edit(IF frozen THEN created ELSE setActiveContext(filled, contextId),
                 n + k + 1)

(***************************************************************************)
(* Validation components (components/validation/ValidationPanel).          *)
(***************************************************************************)
CountSeverity(errors, severity) ==
    Len(Filter(errors, LAMBDA e : e.severity = severity))

\* the errors both components compute: validateContext(activeContext), or []
\* without an active context
ActiveErrors(s) ==
    IF ActiveContext(s) = << >> THEN << >> ELSE validateContext(ActiveContext(s)[1])

\* what ValidationStatus renders: nothing without a context, the "Valid"
\* mark when there is no diagnostic at all, the counts otherwise
ValidationStatus(s) ==
    LET errors == ActiveErrors(s)
    IN  IF ActiveContext(s) = << >>
        THEN [ shown |-> FALSE, valid |-> FALSE,
               errorCount |-> 0, warningCount |-> 0 ]
        ELSE [ shown |-> TRUE,
               valid |-> Len(errors) = 0,
               errorCount |-> CountSeverity(errors, "error"),
               warningCount |-> CountSeverity(errors, "warning") ]

\* Render with a validation that normalises the names of the context it is
\* given in place
Render_normalising ==
    /\ ~view.fresh
    /\ view' = [ fresh |-> TRUE,
                 errors |-> ActiveErrors(state),
                 status |-> ValidationStatus(state) ]
    /\ state' = WithContext(state, state.activeContextId, LAMBDA c :
                   [ c EXCEPT !.nodes =
                       [ i \in DOMAIN c.nodes |->
                           [ c.nodes[i] EXCEPT !.node.name = toLowerCase(@) ] ] ])
    /\ UNCHANGED << history, nextId, edits, core >>

\* React renders the components subscribed to the store: ValidationPanel
\* memoises validateContext(activeContext), ValidationStatus shows its mark
Render ==
    /\ ~view.fresh
    /\ view' = [ fresh |-> TRUE,
                 errors |-> ActiveErrors(state),
                 status |-> ValidationStatus(state) ]
    /\ UNCHANGED << state, history, nextId, edits, core >>

\* fixes[0].action() of getQuickFixes(error, ...): the state after the fix
getQuickFixes(s, error, id) ==
    CASE error.code = "ENTITY_NO_IDENTITY" ->
            addField(s, s.activeContextId, error.nodeId, id,
                     [ name |-> <<"i","d">>, type |-> "UUID", optional |-> FALSE ])
      [] error.code = "ENUM_NO_VARIANTS" ->
            addVariant(s, s.activeContextId, error.nodeId, id,
                       [ name |-> <<"D","e","f","a","u","l","t">> ])
      [] error.code = "ORPHAN_NODE" ->
            deleteNode(s, s.activeContextId, error.nodeId)

ValidationPanel_handleQuickFix ==
    /\ view.fresh
    /\ ActiveContext(state) # << >>
    /\ \E i \in DOMAIN view.errors :
          /\ view.errors[i].code \in { "ENTITY_NO_IDENTITY", "ENUM_NO_VARIANTS", "ORPHAN_NODE" }
          /\ Edit(getQuickFixes(state, view.errors[i], nextId),
                  IF view.errors[i].code = "ORPHAN_NODE" THEN 0 ELSE 1)

(***************************************************************************)
(* Specification.                                                          *)
(***************************************************************************)
Next ==
    \/ Sidebar_handleCreateContext
    \/ Sidebar_handleFinishRename
    \/ Sidebar_handleDelete
    \/ BuildingBlocks_handleAddBlock
    \/ UpdateNode
    \/ DeleteNode
    \/ AddField
    \/ DeleteField
    \/ AddVariant
    \/ DeleteVariant
    \/ AddMorphism
    \/ DeleteMorphism
    \/ Canvas_onConnect
    \/ Undo
    \/ Redo
    \/ TemplateBrowser_handleUseTemplate
    \/ Render
    \/ ValidationPanel_handleQuickFix

Spec == Init /\ [][Next]_vars

(***************************************************************************)
(* Properties.  They speak of what the validation components rendered      *)
(* (view) for the context that is active in the store.                     *)
(***************************************************************************)
\* the components have rendered the current store and a context is active
Validated == view.fresh /\ ActiveContext(state) # << >>

Active == ActiveContext(state)[1]

Reported == Range(view.errors)

\* the reported diagnostics with one of the codes, attached to a node
ReportedFor(codes, nodeId) ==
    { i \in DOMAIN view.errors :
        view.errors[i].code \in codes /\ view.errors[i].nodeId = nodeId }

ErrorSeverity(codes) ==
    \A i \in DOMAIN view.errors :
        view.errors[i].code \in codes => view.errors[i].severity = "error"

NodesOf(context) == { context.nodes[i] : i \in DOMAIN context.nodes }

MorphismsOf(context) == { context.morphisms[i] : i \in DOMAIN context.morphisms }

\* C2: validation is read-only: whenever the validation components compute
\* their diagnostics, the store (contexts with their nodes, fields, variants
\* and morphisms, context maps, selection, flags) and the undo history are
\* left as they were
C2_ValidationReadOnly ==
    [][ (view' # view /\ view'.fresh) => (state' = state /\ history' = history) ]_vars

\* a context with diagnostics has been validated
C2_Witness ==
    /\ Validated
    /\ Len(view.errors) >= 3
    /\ Len(Active.nodes) >= 4
    /\ Len(history.past) >= 1

\* what the rules report for each declaration, stated declaration by
\* declaration
ExpectedDiagnostics(context) ==
    LET ids == Keys(context.nodes)
        kindOf(id) == Lookup(context.nodes, id).node.kind
    IN  { createError("ENTITY_NO_IDENTITY", "warning", e.id, Undefined) :
            e \in { x \in NodesOf(context) :
                      x.node.kind = "entity" /\ ~hasIdField(x.node) } }
        \cup { createError("NODE_EMPTY", "warning", e.id, Undefined) :
            e \in { x \in NodesOf(context) :
                      x.node.kind \in {"entity", "value"} /\ x.node.fields = << >> } }
        \cup { createError("ENUM_NO_VARIANTS", "error", e.id, Undefined) :
            e \in { x \in NodesOf(context) :
                      x.node.kind = "enum" /\ x.node.variants = << >> } }
        \cup { createError("AGGREGATE_NO_ROOT", "error", e.id, Undefined) :
            e \in { x \in NodesOf(context) :
                      x.node.kind = "aggregate" /\ x.node.rootId = EmptyId } }
        \cup { createError("AGGREGATE_INVALID_ROOT", "error", e.id, Undefined) :
            e \in { x \in NodesOf(context) :
                      /\ x.node.kind = "aggregate"
                      /\ x.node.rootId # EmptyId
                      /\ x.node.rootId \notin ids } }
        \cup { createError("AGGREGATE_ROOT_NOT_ENTITY", "error", e.id, Undefined) :
            e \in { x \in NodesOf(context) :
                      /\ x.node.kind = "aggregate"
                      /\ x.node.rootId \in ids
                      /\ kindOf(x.node.rootId) # "entity" } }
        \cup { createError("MORPHISM_INVALID_SOURCE", "error", Undefined, m.id) :
            m \in { x \in MorphismsOf(context) : x.sourceId \notin ids } }
        \cup { createError("MORPHISM_INVALID_TARGET", "error", Undefined, m.id) :
            m \in { x \in MorphismsOf(context) : x.targetId \notin ids } }
        \cup { createError("DUPLICATE_NAME", "warning", e.id, Undefined) :
            e \in { x \in NodesOf(context) :
                      \E y \in NodesOf(context) :
                          /\ y.id # x.id
                          /\ toLowerCase(y.node.name) = toLowerCase(x.node.name) } }
        \cup { createError("NAMING_CONVENTION", "info", e.id, Undefined) :
            e \in { x \in NodesOf(context) : ~pascalCaseRegex(x.node.name) } }
        \cup { createError("ORPHAN_NODE", "info", e.id, Undefined) :
            e \in { x \in NodesOf(context) :
                      /\ x.node.kind # "aggregate"
                      /\ \A m \in MorphismsOf(context) :
                            m.sourceId # x.id /\ m.targetId # x.id
                      /\ \A a \in NodesOf(context) :
                            a.node.kind = "aggregate" =>
                                /\ a.node.rootId # x.id
                                /\ x.id \notin Range(a.node.memberIds) } }
        \cup { createError("AGGREGATE_SELF_ROOT", "error", e.id, Undefined) :
            e \in { x \in NodesOf(context) :
                      x.node.kind = "aggregate" /\ x.node.rootId = x.id } }
        \cup { createError("AGGREGATE_SELF_MEMBER", "error", e.id, Undefined) :
            e \in { x \in NodesOf(context) :
                      x.node.kind = "aggregate" /\ x.id \in Range(x.node.memberIds) } }

\* C3: validation never short-circuits: every diagnostic that a rule has for
\* a node or a morphism is in the list, whatever other declarations and
\* earlier rules reported, and nothing else is
C3_NoShortCircuit ==
    Validated =>
        /\ ExpectedDiagnostics(Active) = Reported
        /\ Len(view.errors) = Cardinality(Reported)

\* several rules report for several declarations in one run, the errors of
\* two aggregates among them
C3_Witness ==
    /\ Validated
    /\ \E a, b \in NodesOf(Active) :
          /\ a.id # b.id
          /\ ReportedFor({"AGGREGATE_NO_ROOT", "AGGREGATE_INVALID_ROOT",
                          "AGGREGATE_ROOT_NOT_ENTITY"}, a.id) # {}
          /\ ReportedFor({"AGGREGATE_NO_ROOT", "AGGREGATE_INVALID_ROOT",
                          "AGGREGATE_ROOT_NOT_ENTITY"}, b.id) # {}
    /\ \E d \in Reported : d.severity = "warning"
    /\ \E d \in Reported : d.severity = "info"

\* C4: the context is shown as valid exactly when validation produced no
\* diagnostic of severity error
C4_ValidIffNoError ==
    (Validated /\ view.status.shown) =>
        (view.status.valid <=> CountSeverity(view.errors, "error") = 0)

\* the nodes reachable from the nodes of S along the context's morphisms
RECURSIVE ReachableFrom(_, _)
ReachableFrom(context, S) ==
    LET step == S \cup { m.targetId : m \in { x \in MorphismsOf(context) : x.sourceId \in S } }
    IN  IF step = S THEN S ELSE ReachableFrom(context, step)

OfKind(context, kind) == { x \in NodesOf(context) : x.node.kind = kind }

\* two entities linked by one morphism, one enum with two variants, one
\* aggregate whose root is an entity and whose members are entities
\* reachable from the root
WellFormed(context) ==
    /\ Len(context.nodes) = 4
    /\ Cardinality(OfKind(context, "entity")) = 2
    /\ Cardinality(OfKind(context, "enum")) = 1
    /\ Cardinality(OfKind(context, "aggregate")) = 1
    /\ \A e \in OfKind(context, "enum") : Len(e.node.variants) = 2
    /\ Len(context.morphisms) = 1
    /\ LET entityIds == { e.id : e \in OfKind(context, "entity") }
           m == context.morphisms[1]
       IN  /\ m.sourceId \in entityIds
           /\ m.targetId \in entityIds
           /\ m.sourceId # m.targetId
           /\ \A a \in OfKind(context, "aggregate") :
                 /\ a.node.rootId \in entityIds
                 /\ a.node.memberIds # << >>
                 /\ Range(a.node.memberIds) \subseteq entityIds
                 /\ Range(a.node.memberIds)
                       \subseteq ReachableFrom(context, { a.node.rootId })

\* C5: no false positives: a well-formed context (two entities linked by a
\* morphism, a two-variant enum, an aggregate with an entity root and a
\* reachable member) validates without any diagnostic of severity error
C5_NoFalsePositives ==
    (Validated /\ WellFormed(Active)) => CountSeverity(view.errors, "error") = 0

\* a well-formed context other than the restored one has been validated
C5_Witness ==
    /\ Validated
    /\ WellFormed(Active)
    /\ Active # GoldenContext
    /\ Len(view.errors) > 0

\* C6: an enum node gets the error 'no variants' exactly when its variant
\* list is empty
C6_EnumNoVariants ==
    Validated =>
        \A e \in OfKind(Active, "enum") :
            (\E d \in Reported :
                /\ d.code = "ENUM_NO_VARIANTS"
                /\ d.severity = "error"
                /\ d.nodeId = e.id)
            <=> Len(e.node.variants) = 0

\* an enum that lost its last variant has been validated and reported
C6_Witness ==
    /\ Validated
    /\ \E e \in OfKind(Active, "enum") :
          /\ e.node.variants = << >>
          /\ ReportedFor({"ENUM_NO_VARIANTS"}, e.id) # {}

RootCodes == { "AGGREGATE_NO_ROOT", "AGGREGATE_INVALID_ROOT", "AGGREGATE_ROOT_NOT_ENTITY" }

\* the root of the aggregate is empty, is no node of the context, or is a
\* node that is not an entity
BadRoot(context, a) ==
    \/ a.node.rootId = EmptyId
    \/ a.node.rootId \notin Keys(context.nodes)
    \/ \E x \in NodesOf(context) : x.id = a.node.rootId /\ x.node.kind # "entity"

\* C7: an aggregate gets an invalid-root error exactly when its root is
\* empty, unresolved or not an entity, and then exactly one of the three
\* root diagnostics, of severity error
C7_AggregateRoot ==
    Validated =>
        /\ ErrorSeverity(RootCodes)
        /\ \A a \in OfKind(Active, "aggregate") :
              Cardinality(ReportedFor(RootCodes, a.id))
                  = (IF BadRoot(Active, a) THEN 1 ELSE 0)

\* an aggregate whose root resolves to a node that is not an entity has
\* been validated and reported
C7_Witness ==
    /\ Validated
    /\ \E a \in OfKind(Active, "aggregate") :
          /\ a.node.rootId \in Keys(Active.nodes)
          /\ BadRoot(Active, a)
          /\ ReportedFor({"AGGREGATE_ROOT_NOT_ENTITY"}, a.id) # {}

\* the reported diagnostics with the code that carry the morphism's id
ReportedForMorphism(code, morphismId) ==
    { i \in DOMAIN view.errors :
        /\ view.errors[i].code = code
        /\ view.errors[i].field = morphismId
        /\ view.errors[i].severity = "error" }

\* C8: a morphism gets the invalid-source error, carrying its id, exactly
\* when its source is no node of the context, and the invalid-target error
\* exactly when its target is none; both when both dangle, none when both
\* exist
C8_MorphismEndpoints ==
    Validated =>
        \A m \in MorphismsOf(Active) :
            /\ ReportedForMorphism("MORPHISM_INVALID_SOURCE", m.id) # {}
                  <=> m.sourceId \notin Keys(Active.nodes)
            /\ ReportedForMorphism("MORPHISM_INVALID_TARGET", m.id) # {}
                  <=> m.targetId \notin Keys(Active.nodes)

\* a morphism with both endpoints dangling next to one with both endpoints
\* in the context
C8_Witness ==
    /\ Validated
    /\ \E m \in MorphismsOf(Active) :
          /\ m.sourceId \notin Keys(Active.nodes)
          /\ m.targetId \notin Keys(Active.nodes)
          /\ ReportedForMorphism("MORPHISM_INVALID_SOURCE", m.id) # {}
          /\ ReportedForMorphism("MORPHISM_INVALID_TARGET", m.id) # {}
    /\ \E m \in MorphismsOf(Active) :
          m.sourceId \in Keys(Active.nodes) /\ m.targetId \in Keys(Active.nodes)

\* C9: two nodes of a context with the same name make validation fail: each
\* of the two is named by a duplicate-name diagnostic of severity error
C9_DuplicateNameIsError ==
    Validated =>
        \A x, y \in NodesOf(Active) :
            (x.id # y.id /\ x.node.name = y.node.name) =>
                \E d \in Reported :
                    /\ d.code = "DUPLICATE_NAME"
                    /\ d.nodeId = x.id
                    /\ d.severity = "error"

\* two morphisms of the context have the same name
DuplicateMorphismName(context) ==
    \E i, j \in DOMAIN context.morphisms :
        i # j /\ context.morphisms[i].name = context.morphisms[j].name

\* C10: morphism names are unique within every context of the store, and
\* validation of a context in which two morphisms share a name reports a
\* diagnostic that carries the id of such a morphism
C10_UniqueMorphismNames ==
    /\ \A i \in DOMAIN state.contexts : ~DuplicateMorphismName(state.contexts[i])
    /\ (Validated /\ DuplicateMorphismName(Active)) =>
          \E d \in Reported : \E m \in MorphismsOf(Active) :
              /\ d.field = m.id
              /\ \E n \in MorphismsOf(Active) : n.id # m.id /\ n.name = m.name
              /\ d.code \notin { "MORPHISM_INVALID_SOURCE", "MORPHISM_INVALID_TARGET" }

(***************************************************************************)
(* Validation as a function of the model it is given: a second             *)
(* specification that restores one model out of a bounded family and       *)
(* renders its diagnostics.                                                *)
(***************************************************************************)
\* the largest number of member entities of the aggregate of a sample
MaxMembers == 6

ContextMap(id, name, sourceContextId, targetContextId, pattern, mappings) ==
    [ id |-> id, name |-> name, sourceContextId |-> sourceContextId,
      targetContextId |-> targetContextId, pattern |-> pattern,
      mappings |-> mappings ]

Digits == <<"0","1","2","3","4","5","6","7","8","9">>

Name_Item(i) == <<"I","t","e","m">> \o << Digits[i + 1] >>

Name_Pending == <<"P","e","n","d","i","n","g">>

\* the field lists of the root entity of a sample
SampleFields ==
    { << Field(40, <<"i","d">>, "UUID", FALSE) >>,
      << Field(40, <<"k","e","y">>, "UUID", FALSE) >>,
      << Field(40, <<"I","d">>, "String", FALSE) >>,
      << Field(40, <<"n","a","m","e">>, "String", FALSE) >> }

\* the variant lists of the enum of a sample
SampleVariants ==
    { << EnumVariant(50, Name_Pending), EnumVariant(51, <<"P","a","i","d">>) >>,
      << EnumVariant(50, Name_Pending), EnumVariant(51, Name_Pending) >>,
      << EnumVariant(50, Name_Pending), EnumVariant(51, toLowerCase(Name_Pending)) >> }

\* how the morphisms of a sample connect the root to the member entities
SampleLinks == { "star", "chain", "none" }

\* what the aggregate of a sample lists after its member entities: nothing,
\* the enum, or an id that is no node
SampleExtraMembers == { << >>, << 20 >>, << NoSuchId >> }

\* a context with the root entity 1, the member entities 2..members+1, the
\* enum 20 and the aggregate 21
SampleContext(members, link, extra, variants, fields) ==
    ContextData(1, Name_Orders,
      << NodeEntry(1, EntityNode(Name_Order, fields)) >>
      \o [ i \in 1..members |->
             NodeEntry(i + 1, EntityNode(Name_Item(i),
                                 << Field(40 + i, <<"i","d">>, "UUID", FALSE) >>)) ]
      \o << NodeEntry(20, EnumNode(Name_Status, variants)),
            NodeEntry(21, AggregateNode(Name_OrderAggregate, 1,
                              [ i \in 1..members |-> i + 1 ] \o extra)) >>,
      IF link = "none" THEN << >>
      ELSE [ i \in 1..members |->
               Morphism(30 + i, Name_Item(i),
                        IF link = "star" THEN 1 ELSE i, i + 1, "one") ])

SampleContexts ==
    { SampleContext(members, link, extra, variants, fields) :
        members \in 0..MaxMembers, link \in SampleLinks,
        extra \in SampleExtraMembers, variants \in SampleVariants,
        fields \in SampleFields }

\* the context maps of a sample: none, or one map between the context and
\* itself or a context that is not in the store
SampleContextMaps ==
    { << >> } \cup
    { << ContextMap(60, <<"M">>, source, target, "Conformist", << >>) >> :
        source \in { 1, NoSuchId }, target \in { 1, NoSuchId } }

ValidateInit ==
    /\ \E context \in SampleContexts : \E maps \in SampleContextMaps :
          state = [ initialState EXCEPT
                      !.contexts = << context >>,
                      !.contextMaps = maps,
                      !.activeContextId = context.id ]
    /\ nextId = 100
    /\ history = [ past |-> << >>, future |-> << >> ]
    /\ edits = 0
    /\ view = NotRendered
    /\ core = NoCore

ValidateNext == Render

ValidateSpec == ValidateInit /\ [][ValidateNext]_vars

\* the positions of the variants whose name an earlier variant of the enum
\* already has
RepeatedVariants(enum) ==
    { j \in DOMAIN enum.variants :
        \E i \in 1..(j - 1) : enum.variants[i].name = enum.variants[j].name }

DuplicateVariantCodes == { "DUPLICATE_VARIANT", "DuplicateVariant" }

\* C11: an enum with two variants of the same name, compared
\* case-sensitively, gets exactly one duplicate-variant diagnostic, and it
\* names the second occurrence; an enum whose variant names are pairwise
\* distinct gets none
C11_DuplicateVariant ==
    Validated =>
        \A e \in OfKind(Active, "enum") :
            LET reported == ReportedFor(DuplicateVariantCodes, e.id)
                repeated == RepeatedVariants(e.node)
            IN  /\ repeated = {} => reported = {}
                /\ (Len(e.node.variants) = 2 /\ repeated # {}) =>
                      /\ Cardinality(reported) = 1
                      /\ \A i \in reported :
                            view.errors[i].field = e.node.variants[2].id

\* the id resolves to an entity node of the context
IsEntityOf(context, id) ==
    \E x \in NodesOf(context) : x.id = id /\ x.node.kind = "entity"

\* the codes under which a member that is no entity can be reported; the
\* rule for an aggregate that lists itself is counted among them
InvalidContainedCodes ==
    { "AGGREGATE_INVALID_MEMBER", "InvalidContainedEntity", "AGGREGATE_SELF_MEMBER" }

\* C12: for every aggregate, a listed member that does not resolve to an
\* entity node of the same context (no node, or a value, enum or aggregate
\* node) is reported by an invalid-contained-entity diagnostic of severity
\* error
C12_InvalidContainedEntity ==
    Validated =>
        \A a \in OfKind(Active, "aggregate") :
            (\E member \in Range(a.node.memberIds) : ~IsEntityOf(Active, member)) =>
                \E i \in ReportedFor(InvalidContainedCodes, a.id) :
                    view.errors[i].severity = "error"

\* the member entities of the aggregate that no chain of morphisms of the
\* context connects from its root
UnreachableMembers(context, a) ==
    { member \in Range(a.node.memberIds) :
        /\ IsEntityOf(context, member)
        /\ member \notin ReachableFrom(context, { a.node.rootId }) }

UnreachableCodes == { "AGGREGATE_UNREACHABLE_MEMBER", "UnreachableContainedEntity" }

\* C13: an aggregate with a member entity that no chain of morphisms
\* connects from the root is reported by an unreachable-contained-entity
\* error; validated with a morphism from the root to every member, it is
\* not
C13_Reachability ==
    Validated =>
        \A a \in OfKind(Active, "aggregate") :
            IsEntityOf(Active, a.node.rootId) =>
                IF UnreachableMembers(Active, a) # {}
                THEN \E i \in ReportedFor(UnreachableCodes, a.id) :
                        view.errors[i].severity = "error"
                ELSE ReportedFor(UnreachableCodes, a.id) = {}

\* the number of contained entities beyond which an aggregate is large
LargeAggregateLimit == 5

LargeAggregateCodes == { "AGGREGATE_TOO_LARGE", "LargeAggregate" }

\* every member of the aggregate is an entity of the context that a chain
\* of morphisms connects from the root, itself an entity
MembersValid(context, a) ==
    /\ IsEntityOf(context, a.node.rootId)
    /\ \A member \in Range(a.node.memberIds) : IsEntityOf(context, member)
    /\ UnreachableMembers(context, a) = {}

\* C14: an aggregate with more than 5 member entities, all valid and
\* reachable, gets no error and exactly one large-aggregate warning; an
\* aggregate with 5 members or fewer gets no such warning
C14_LargeAggregate ==
    Validated =>
        \A a \in OfKind(Active, "aggregate") :
            LET reported == ReportedFor(LargeAggregateCodes, a.id)
            IN  IF Len(a.node.memberIds) > LargeAggregateLimit
                THEN MembersValid(Active, a) =>
                        /\ \A i \in DOMAIN view.errors :
                              view.errors[i].nodeId = a.id =>
                                  view.errors[i].severity # "error"
                        /\ Cardinality(reported) = 1
                        /\ \A i \in reported : view.errors[i].severity = "warning"
                ELSE reported = {}

\* where the declaration a diagnostic is attached to stands in the context:
\* the nodes in their order, then the morphisms in theirs
Location(context, error) ==
    IF error.nodeId # Undefined /\ HasKey(context.nodes, error.nodeId)
    THEN IndexOf(context.nodes, error.nodeId)
    ELSE IF error.field # Undefined /\ HasKey(context.morphisms, error.field)
    THEN Len(context.nodes) + IndexOf(context.morphisms, error.field)
    ELSE Len(context.nodes) + Len(context.morphisms) + 1

SeverityRank(severity) ==
    CASE severity = "error" -> 1
      [] severity = "warning" -> 2
      [] severity = "info" -> 3

\* C15: the diagnostics of a context come as one list sorted by location
\* (the declaration a diagnostic is attached to) and then by severity
C15_SortedDiagnostics ==
    Validated =>
        \A i, j \in DOMAIN view.errors :
            i < j =>
                LET a == view.errors[i]
                    b == view.errors[j]
                IN  \/ Location(Active, a) < Location(Active, b)
                    \/ /\ Location(Active, a) = Location(Active, b)
                       /\ SeverityRank(a.severity) <= SeverityRank(b.severity)

\* the entity is reported as lacking an identity
MissingIdentityReported(e) == ReportedFor({"ENTITY_NO_IDENTITY"}, e.id) # {}

ContextMapsOf(s) == { s.contextMaps[i] : i \in DOMAIN s.contextMaps }

\* C17: a context map whose source or target context is no context of the
\* model makes validation report an undefined-source-context or
\* undefined-target-context error
C17_UndefinedMapContext ==
    Validated =>
        \A map \in ContextMapsOf(state) :
            /\ ~HasKey(state.contexts, map.sourceContextId) =>
                  \E d \in Reported :
                      /\ d.code \in { "CONTEXT_MAP_INVALID_SOURCE", "UndefinedSourceContext" }
                      /\ d.severity = "error"
            /\ ~HasKey(state.contexts, map.targetContextId) =>
                  \E d \in Reported :
                      /\ d.code \in { "CONTEXT_MAP_INVALID_TARGET", "UndefinedTargetContext" }
                      /\ d.severity = "error"

(***************************************************************************)
(* The core validators for context maps and equations.  The visual builder *)
(* holds neither morphism mappings nor equations, and the validators of    *)
(* the core crate are described by the specification only: sections 4.1,   *)
(* 4.2, 4.5 and 4.6.                                                       *)
(***************************************************************************)
CoreMorphism(name, source, target) == [ name |-> name, source |-> source, target |-> target ]

\* the declared contexts: A with f: X -> Z, B with g: Y -> Q and h: Q -> Y
CoreContexts ==
    [ A |-> [ objects |-> { "X", "Z" },
              morphisms |-> { CoreMorphism("f", "X", "Z") } ],
      B |-> [ objects |-> { "Y", "Q" },
              morphisms |-> { CoreMorphism("g", "Y", "Q"), CoreMorphism("h", "Q", "Y") } ] ]

IntegrationPatterns ==
    { "Partnership", "CustomerSupplier", "Conformist", "AntiCorruptionLayer",
      "SeparateWays", "PublishedLanguage", "OpenHostService", "SharedKernel" }

Declared(contextName) == contextName \in DOMAIN CoreContexts

\* the morphism of the context with the name; the set is empty if there is none
MorphismNamed(contextName, name) ==
    IF Declared(contextName)
    THEN { m \in CoreContexts[contextName].morphisms : m.name = name }
    ELSE {}

Unmapped == "unmapped"

\* what the object mapping sends the object to
MappedTo(map, object) ==
    IF \E pair \in map.mappings : pair[1] = object
    THEN (CHOOSE pair \in map.mappings : pair[1] = object)[2]
    ELSE Unmapped

\* 4.6: the endpoint-preservation check of one morphism mapping f -> g,
\* looking at the source only
EndpointMismatch_sourceOnly(map, pair) ==
    { [ code |-> "MorphismMappingEndpointMismatch", severity |-> "error",
        morphism |-> f.name,
        expected |-> << g.source, g.target >>,
        actual |-> << MappedTo(map, f.source), MappedTo(map, f.target) >> ] :
      f \in { x \in MorphismNamed(map.source, pair[1]) :
                \E y \in MorphismNamed(map.target, pair[2]) :
                    MappedTo(map, x.source) # y.source },
      g \in MorphismNamed(map.target, pair[2]) }

\* 4.6: the endpoint-preservation check of one morphism mapping f -> g
EndpointMismatch(map, pair) ==
    { [ code |-> "MorphismMappingEndpointMismatch", severity |-> "error",
        morphism |-> f.name,
        expected |-> << g.source, g.target >>,
        actual |-> << MappedTo(map, f.source), MappedTo(map, f.target) >> ] :
      f \in { x \in MorphismNamed(map.source, pair[1]) :
                \E y \in MorphismNamed(map.target, pair[2]) :
                    \/ MappedTo(map, x.source) # y.source
                    \/ MappedTo(map, x.target) # y.target },
      g \in MorphismNamed(map.target, pair[2]) }

CoreError(code, severity) == [ code |-> code, severity |-> severity ]

\* 4.6 Context Map Validator: every check runs, none suppresses another
ContextMapValidator(map) ==
    (IF ~Declared(map.source) THEN { CoreError("UndefinedSourceContext", "error") } ELSE {})
    \cup (IF ~Declared(map.target) THEN { CoreError("UndefinedTargetContext", "error") } ELSE {})
    \cup { CoreError("MappingSourceNotFound", "error") : pair \in
              { x \in map.mappings :
                  Declared(map.source) /\ x[1] \notin CoreContexts[map.source].objects } }
    \cup { CoreError("MappingTargetNotFound", "error") : pair \in
              { x \in map.mappings :
                  Declared(map.target) /\ x[2] \notin CoreContexts[map.target].objects } }
    \cup UNION { EndpointMismatch(map, pair) : pair \in map.morphismMappings }
    \cup (IF map.pattern \notin IntegrationPatterns
          THEN { CoreError("InvalidIntegrationPattern", "error") } ELSE {})
    \cup (IF Declared(map.source)
             /\ \E object \in CoreContexts[map.source].objects :
                   MappedTo(map, object) = Unmapped
          THEN { CoreError("IncompleteContextMap", "info") } ELSE {})

\* 4.2 Path Resolver: the object reached from the object by the steps, or
\* the failure of the first step that does not resolve or compose
RECURSIVE ResolveFrom(_, _, _)
ResolveFrom(contextName, object, steps) ==
    IF steps = << >> THEN [ ok |-> TRUE, target |-> object ]
    ELSE LET named == MorphismNamed(contextName, Head(steps))
         IN  IF named = {} THEN [ ok |-> FALSE, code |-> "UnknownMorphism" ]
             ELSE LET m == CHOOSE x \in named : TRUE
                  IN  IF m.source # object
                      THEN [ ok |-> FALSE, code |-> "CompositionMismatch" ]
                      ELSE ResolveFrom(contextName, m.target, Tail(steps))

PathResolver(contextName, path) ==
    IF path.source \notin CoreContexts[contextName].objects
    THEN [ ok |-> FALSE, code |-> "UnknownSource" ]
    ELSE ResolveFrom(contextName, path.source, path.steps)

\* 4.5 Equation Checker comparing the targets only of paths with the same
\* source
EquationChecker_elseIf(contextName, equation) ==
    LET left == PathResolver(contextName, equation.left)
        right == PathResolver(contextName, equation.right)
    IN  { CoreError(r.code, "error") : r \in { x \in { left, right } : ~x.ok } }
        \cup (IF equation.left.source # equation.right.source
              THEN { CoreError("EquationSourceMismatch", "error") }
              ELSE IF left.ok /\ right.ok /\ left.target # right.target
              THEN { CoreError("EquationTargetMismatch", "error") }
              ELSE {})
        \cup (IF equation.left = equation.right
              THEN { CoreError("TrivialEquation", "warning") } ELSE {})

\* 4.5 Equation Checker
EquationChecker(contextName, equation) ==
    LET left == PathResolver(contextName, equation.left)
        right == PathResolver(contextName, equation.right)
    IN  { CoreError(r.code, "error") : r \in { x \in { left, right } : ~x.ok } }
        \cup (IF equation.left.source # equation.right.source
              THEN { CoreError("EquationSourceMismatch", "error") } ELSE {})
        \cup (IF left.ok /\ right.ok /\ left.target # right.target
              THEN { CoreError("EquationTargetMismatch", "error") } ELSE {})
        \cup (IF equation.left = equation.right
              THEN { CoreError("TrivialEquation", "warning") } ELSE {})

\* the longest path of a sample equation
MaxPathLen == 2

SamplePaths ==
    { [ source |-> source, steps |-> steps ] :
        source \in { "Y", "Q" },
        steps \in UNION { [ 1..n -> { "g", "h" } ] : n \in 0..MaxPathLen } }

SampleEquations == { [ left |-> l, right |-> r ] : l \in SamplePaths, r \in SamplePaths }

\* the object mappings of a sample map: X and Z each sent to Y, to Q or left
\* unmapped
SampleMappings ==
    { { pair \in { << "X", x >>, << "Z", z >> } : pair[2] # Unmapped } :
        x \in { "Y", "Q", Unmapped }, z \in { "Y", "Q", Unmapped } }

SampleCoreMaps ==
    { [ source |-> source, target |-> target, pattern |-> pattern,
        mappings |-> mappings, morphismMappings |-> morphismMappings ] :
        source \in { "A", "C" }, target \in { "B", "C" },
        pattern \in { "Conformist", "Bogus" },
        mappings \in SampleMappings,
        morphismMappings \in { {}, { << "f", "g" >> }, { << "f", "h" >> } } }

CoreInit ==
    /\ \/ \E map \in SampleCoreMaps :
             core = [ NoCore EXCEPT !.kind = "map", !.input = map ]
       \/ \E equation \in SampleEquations :
             core = [ NoCore EXCEPT !.kind = "equation", !.input = equation ]
    /\ state = initialState
    /\ nextId = 1
    /\ history = [ past |-> << >>, future |-> << >> ]
    /\ edits = 0
    /\ view = NotRendered

Core_validateContextMap ==
    /\ core.kind = "map"
    /\ ~core.validated
    /\ core' = [ core EXCEPT !.validated = TRUE,
                             !.diagnostics = ContextMapValidator(core.input) ]
    /\ UNCHANGED << state, history, nextId, edits, view >>

Core_validateEquation ==
    /\ core.kind = "equation"
    /\ ~core.validated
    /\ core' = [ core EXCEPT !.validated = TRUE,
                             !.diagnostics = EquationChecker("B", core.input) ]
    /\ UNCHANGED << state, history, nextId, edits, view >>

CoreNext == Core_validateContextMap \/ Core_validateEquation

CoreSpec == CoreInit /\ [][CoreNext]_vars

\* C18: for a morphism mapping f -> g of a context map between declared
\* contexts, if the object mapping does not send the source of f to the
\* source of g and the target of f to the target of g, the validator
\* reports an endpoint mismatch that names f, the expected targets (the
\* endpoints of g) and the actual ones (where the endpoints of f are sent);
\* if it does, no mismatch is reported for f
C18_EndpointMismatch ==
    (core.kind = "map" /\ core.validated) =>
        \A pair \in core.input.morphismMappings :
          \A f \in MorphismNamed(core.input.source, pair[1]) :
            \A g \in MorphismNamed(core.input.target, pair[2]) :
                LET actual == << MappedTo(core.input, f.source),
                                 MappedTo(core.input, f.target) >>
                    reported == { d \in core.diagnostics :
                                    /\ d.code = "MorphismMappingEndpointMismatch"
                                    /\ d.morphism = f.name }
                IN  IF actual # << g.source, g.target >>
                    THEN \E d \in reported :
                            /\ d.expected = << g.source, g.target >>
                            /\ d.actual = actual
                            /\ d.severity = "error"
                    ELSE reported = {}

\* a map whose object mapping preserves the source of f but not its target
\* has been validated and the mismatch reported
C18_Witness ==
    /\ core.kind = "map"
    /\ core.validated
    /\ << "f", "g" >> \in core.input.morphismMappings
    /\ MappedTo(core.input, "X") = "Y"
    /\ MappedTo(core.input, "Z") = Unmapped
    /\ \E d \in core.diagnostics :
          /\ d.code = "MorphismMappingEndpointMismatch"
          /\ d.actual = << "Y", Unmapped >>

\* C19: for every equation, the checker reports a source-mismatch error
\* when the declared sources of its two paths differ, and a target-mismatch
\* error when both paths resolve and their targets differ
C19_EquationMismatch ==
    (core.kind = "equation" /\ core.validated) =>
        LET left == PathResolver("B", core.input.left)
            right == PathResolver("B", core.input.right)
        IN  /\ CoreError("EquationSourceMismatch", "error") \in core.diagnostics
                  <=> core.input.left.source # core.input.right.source
            /\ CoreError("EquationTargetMismatch", "error") \in core.diagnostics
                  <=> (left.ok /\ right.ok /\ left.target # right.target)

\* an equation whose paths differ in source and in target has been checked
\* and both mismatches reported
C19_Witness ==
    /\ core.kind = "equation"
    /\ core.validated
    /\ core.input.left.source # core.input.right.source
    /\ CoreError("EquationSourceMismatch", "error") \in core.diagnostics
    /\ CoreError("EquationTargetMismatch", "error") \in core.diagnostics

(***************************************************************************)
(* Long histories: a third specification in which one context is renamed   *)
(* back and forth, with undo and redo, beyond MAX_HISTORY edits.           *)
(***************************************************************************)
\* the number of history-recording edits of a run
MaxHistoryEdits == 51

\* the store restored with one empty context, as the sidebar creates it
HistorySeed ==
    [ initialState EXCEPT
        !.contexts = << ContextData(1, ContextName(1), << >>, << >>) >>,
        !.activeContextId = 1 ]

HistoryInit ==
    /\ state = HistorySeed
    /\ nextId = 2
    /\ history = [ past |-> << >>, future |-> << >> ]
    /\ edits = 0
    /\ view = NotRendered
    /\ core = NoCore

\* Sidebar.handleFinishRename with a name other than the current one
History_handleFinishRename ==
    \E id \in Keys(state.contexts) :
      \E name \in { Name_Orders, ContextName(1) } :
        /\ name # Lookup(state.contexts, id).name
        /\ edits < MaxHistoryEdits
        /\ state' = renameContext(state, id, name)
        /\ history' = saveToHistory(history, state)
        /\ edits' = edits + 1
        /\ Stale
        /\ UNCHANGED << nextId, core >>

HistoryNext == History_handleFinishRename \/ Undo \/ Redo

HistorySpec == HistoryInit /\ [][HistoryNext]_vars

\* the data of the store
Data(s) ==
    [ contexts |-> s.contexts, contextMaps |-> s.contextMaps,
      activeContextId |-> s.activeContextId ]

\* C20: undo has full history: whatever the number of edits made from the
\* initial state, once undo has been called for each of them and nothing is
\* left to undo, the data of the store (contexts, contextMaps,
\* activeContextId) is that of the initial state
C20_UndoFullHistory ==
    history.past = << >> => Data(state) = Data(HistorySeed)

(***************************************************************************)
(* Properties of the history (undo, redo) and of the edits of the store.   *)
(***************************************************************************)
\* the step is a history-recording edit
IsEdit == edits' = edits + 1

\* the step is an undo: a snapshot moves from the past to the future
IsUndo ==
    /\ ~IsEdit
    /\ Len(history'.past) = Len(history.past) - 1
    /\ Len(history'.future) = Len(history.future) + 1

\* the step is a redo: a snapshot moves from the future to the past
IsRedo ==
    /\ ~IsEdit
    /\ Len(history'.future) = Len(history.future) - 1
    /\ Len(history'.past) = Len(history.past) + 1

\* C21: single-step undo: calling undo right after any history-recording
\* edit made in a state S gives every field of DomainState its value in S
C21_SingleStepUndo ==
    [][ IsEdit => undo(history', state').state = state ]_vars

\* an edit that changed the store has been undone
C21_Witness ==
    /\ edits = 1
    /\ history.past = << >>
    /\ Len(history.future) = 1
    /\ history.future[1] # state

\* C22: undo followed at once by redo leaves DomainState and both history
\* stacks as they were before the undo, and redo followed at once by undo
\* leaves them as they were before the redo
C22_UndoRedoRoundTrip ==
    [][ /\ IsUndo => redo(history', state') = [ state |-> state, history |-> history ]
        /\ IsRedo => undo(history', state') = [ state |-> state, history |-> history ]
      ]_vars

\* an undo has acted: a redo is possible, it changes the store and an undo
\* is possible after it
C22_Witness ==
    /\ Len(history.future) > 0
    /\ redo(history, state).state # state
    /\ redo(history, state).history.past # << >>

(***************************************************************************)
(* The graph editor: a fourth specification with the operations that add   *)
(* and delete nodes and morphisms as the palette and the canvas call them, *)
(* undo, redo and the rendering of the validation.                         *)
(***************************************************************************)
\* the number of history-recording edits of a run of the graph editor
MaxGraphEdits == 2

GraphInit ==
    /\ state = [ initialState EXCEPT !.contexts = << GoldenContext >>,
                                     !.activeContextId = GoldenContext.id ]
    /\ nextId = 11
    /\ history = [ past |-> << >>, future |-> << >> ]
    /\ edits = 0
    /\ view = NotRendered
    /\ core = NoCore

GraphEdit(s2, n) ==
    /\ edits < MaxGraphEdits
    /\ state' = s2
    /\ history' = saveToHistory(history, state)
    /\ nextId' = nextId + n
    /\ edits' = edits + 1
    /\ UNCHANGED core
    /\ Stale

Graph_handleAddBlock ==
    \E kind \in PaletteKinds :
        /\ state.activeContextId # NullId
        /\ IF kind \in { "entity", "enum" }
           THEN GraphEdit(addNode(state, state.activeContextId, nextId + 1,
                                  PaletteNode(kind, nextId)), 2)
           ELSE GraphEdit(addNode(state, state.activeContextId, nextId,
                                  PaletteNode(kind, nextId)), 1)

Graph_deleteNode ==
    \E contextId \in Keys(state.contexts) :
      \E nodeId \in NodeIdsOf(contextId) \cup { NoSuchId } :
        GraphEdit(deleteNode(state, contextId, nodeId), 0)

Graph_onConnect ==
    \E source \in NodeIdsOf(state.activeContextId) :
      \E target \in NodeIdsOf(state.activeContextId) :
        /\ state.activeContextId # NullId
        /\ GraphEdit(addMorphism(state, state.activeContextId, nextId,
                       [ name |-> morphismName(NodeIn(state.activeContextId, source),
                                               NodeIn(state.activeContextId, target)),
                         sourceId |-> source, targetId |-> target,
                         cardinality |-> "one" ]), 1)

Graph_deleteMorphism ==
    \E contextId \in Keys(state.contexts) :
      \E morphismId \in Keys(Lookup(state.contexts, contextId).morphisms)
                          \cup { NoSuchId } :
            GraphEdit(deleteMorphism(state, contextId, morphismId), 0)

GraphNext ==
    \/ Graph_handleAddBlock
    \/ Graph_deleteNode
    \/ Graph_onConnect
    \/ Graph_deleteMorphism
    \/ Undo
    \/ Redo
    \/ Render

GraphSpec == GraphInit /\ [][GraphNext]_vars

\* C23: right after any history-recording edit the redo stack is empty,
\* whatever undo and redo calls came before the edit
C23_EditClearsRedo ==
    [][ IsEdit => history'.future = << >> ]_vars

\* an edit has been made after an undo: two edits were made and only one
\* snapshot is left to undo
C23_Witness ==
    /\ edits = 2
    /\ Len(history.past) = 1
    /\ history.future = << >>

\* C24: the history is bounded: in every state the past and the future
\* together hold at most MAX_HISTORY snapshots, whatever edits, undos and
\* redos came before; and when a snapshot is saved with MAX_HISTORY already
\* in the past, the oldest one is the one discarded
C24_HistoryBounded ==
    /\ [](Len(history.past) + Len(history.future) <= MAX_HISTORY)
    /\ [][ (IsEdit /\ Len(history.past) = MAX_HISTORY) =>
              history'.past = Append(Tail(history.past), state) ]_vars

\* more edits than MAX_HISTORY have been made, the past is full, and after
\* undos and a redo part of the snapshots are in the future
C24_Witness ==
    /\ edits > MAX_HISTORY
    /\ Len(history.past) + Len(history.future) = MAX_HISTORY
    /\ Len(history.future) > 0

\* ---------------------------------------------------------------------
\* Edits whose target is missing or of the wrong kind
\* ---------------------------------------------------------------------

\* the step is a history-recording operation called on a context or node that is not
\* there (updateNode, deleteNode) or on a node of the wrong kind
\* (addField on an enum or aggregate node, addVariant on a node that is no
\* enum)
FailedEdit ==
    /\ IsEdit
    /\ \E contextId \in ContextIds :
         \E nodeId \in NodeIdsOf(contextId) \cup { NoSuchId } :
           \/ /\ ~ NodeOfKind(state, contextId, nodeId,
                              {"entity", "value", "enum", "aggregate"})
              /\ \/ state' = deleteNode(state, contextId, nodeId)
                 \/ \E updates \in NodeUpdates(contextId, nodeId) :
                      state' = updateNode(state, contextId, nodeId, updates)
           \/ /\ ~ NodeOfKind(state, contextId, nodeId, {"entity", "value"})
              /\ state' = addField(state, contextId, nodeId, nextId, NewField)
           \/ /\ ~ NodeOfKind(state, contextId, nodeId, {"enum"})
              /\ state' = addVariant(state, contextId, nodeId, nextId, NewVariant)

\* C25: a history-recording operation whose target does not exist or has
\* the wrong kind leaves the whole store unchanged, the undo stack and the
\* redo stack included
C25_FailedEditChangesNothing ==
    [][ FailedEdit => (state' = state /\ history' = history) ]_vars

\* ---------------------------------------------------------------------
\* Deleting a node
\* ---------------------------------------------------------------------

\* the step is deleteNode(contextId, nodeId) on an existing context
IsDeleteNode(contextId, nodeId) ==
    /\ IsEdit
    /\ HasKey(state.contexts, contextId)
    /\ state' = deleteNode(state, contextId, nodeId)

Touches(m, nodeId) == m.sourceId = nodeId \/ m.targetId = nodeId

\* what the claim says of the graph after deleteNode(contextId, nodeId)
DeleteNodeCascade(before, after, contextId, nodeId) ==
    LET c == Lookup(before.contexts, contextId) IN
    /\ Keys(after.contexts) = Keys(before.contexts)
    /\ \A d \in Keys(before.contexts) \ { contextId } :
         Lookup(after.contexts, d) = Lookup(before.contexts, d)
    /\ LET c2 == Lookup(after.contexts, contextId) IN
         /\ Keys(c2.nodes) = Keys(c.nodes) \ { nodeId }
         /\ \A k \in Keys(c2.nodes) : Lookup(c2.nodes, k) = Lookup(c.nodes, k)
         /\ \A i \in DOMAIN c2.morphisms : ~ Touches(c2.morphisms[i], nodeId)
         /\ MorphismsOf(c2) = { m \in MorphismsOf(c) : ~ Touches(m, nodeId) }
         /\ Len(c2.morphisms) = Cardinality(MorphismsOf(c2))
         /\ c2.name = c.name

DanglingMorphisms(context) ==
    { m \in MorphismsOf(context) :
        \/ m.sourceId \notin Keys(context.nodes)
        \/ m.targetId \notin Keys(context.nodes) }

EndpointCodes == { "MORPHISM_INVALID_SOURCE", "MORPHISM_INVALID_TARGET" }

\* C28: when morphisms are only added between nodes of the context, as
\* Canvas.onConnect does, then after any sequence of addNode, deleteNode,
\* addMorphism, deleteMorphism, undo and redo every morphism's sourceId and
\* targetId are nodes of its context, and validation reports neither
\* MORPHISM_INVALID_SOURCE nor MORPHISM_INVALID_TARGET
C28_EndpointIntegrity ==
    /\ \A i \in DOMAIN state.contexts :
          DanglingMorphisms(state.contexts[i]) = {}
    /\ Validated => \A i \in DOMAIN view.errors : view.errors[i].code \notin EndpointCodes

\* a node that had a morphism attached has been deleted, morphisms remain,
\* and the context has been validated after it
C28_Witness ==
    /\ Validated
    /\ Len(history.past) >= 1
    /\ MorphismsOf(Active) # {}
    /\ LET before == ActiveContext(history.past[Len(history.past)]) IN
         /\ before # << >>
         /\ \E nodeId \in Keys(before[1].nodes) \ Keys(Active.nodes) :
               \E m \in MorphismsOf(before[1]) : Touches(m, nodeId)

\* the aggregate nodes of the context that name the node as root or member
AggregatesReferring(context, nodeId) ==
    { e \in NodesOf(context) :
        /\ e.node.kind = "aggregate"
        /\ \/ e.node.rootId = nodeId
           \/ nodeId \in Range(e.node.memberIds) }

\* C29: after deleteNode(c, n) no aggregate node of context c has rootId
\* equal to n or lists n in memberIds
C29_NoAggregateReference ==
    [][ \A contextId \in ContextIds :
          \A nodeId \in NodeIdsOf(contextId) \cup { NoSuchId } :
            IsDeleteNode(contextId, nodeId) =>
              AggregatesReferring(Lookup(state'.contexts, contextId), nodeId) = {} ]_vars

(***************************************************************************)
(* Selection and panels: the canvas selection, the panel toggles, switching*)
(* between two contexts, deletions, undo and redo.                         *)
(***************************************************************************)
MaxSelectionEdits == 1

setSelectedNodes(s, nodeIds) == [ s EXCEPT !.selectedNodeIds = nodeIds ]

setSelectedEdges(s, edgeIds) == [ s EXCEPT !.selectedEdgeIds = edgeIds ]

clearSelection(s) == [ s EXCEPT !.selectedNodeIds = << >>, !.selectedEdgeIds = << >> ]

togglePalette(s) == [ s EXCEPT !.isPaletteOpen = ~ s.isPaletteOpen ]

togglePropertiesPanel(s) ==
    [ s EXCEPT !.isPropertiesPanelOpen = ~ s.isPropertiesPanelOpen ]

\* a second, empty context next to the golden one
SecondContext == ContextData(7, ContextName(2), << >>, << >>)

SelectionInit ==
    /\ state = [ initialState EXCEPT !.contexts = << GoldenContext, SecondContext >>,
                                     !.activeContextId = GoldenContext.id ]
    /\ nextId = 11
    /\ history = [ past |-> << >>, future |-> << >> ]
    /\ edits = 0
    /\ view = NotRendered
    /\ core = NoCore

\* a store operation that records no history
Set(s2) ==
    /\ state' = s2
    /\ Stale
    /\ UNCHANGED << history, nextId, edits, core >>

SelectionEdit(s2, n) ==
    /\ edits < MaxSelectionEdits
    /\ state' = s2
    /\ history' = saveToHistory(history, state)
    /\ nextId' = nextId + n
    /\ edits' = edits + 1
    /\ UNCHANGED core
    /\ Stale

\* the selections the canvas can report: at most one node and at most one
\* edge, both drawn from the active context
Selections(ids) == { << >> } \cup { << id >> : id \in ids }

MorphismIdsOf(contextId) ==
    IF HasKey(state.contexts, contextId)
    THEN Keys(Lookup(state.contexts, contextId).morphisms) ELSE {}

Canvas_onSelectionChange ==
    \E nodeIds \in Selections(NodeIdsOf(state.activeContextId)) :
      \E edgeIds \in Selections(MorphismIdsOf(state.activeContextId)) :
        Set(setSelectedEdges(setSelectedNodes(state, nodeIds), edgeIds))

ValidationPanel_handleNavigateToNode ==
    \E nodeId \in NodeIdsOf(state.activeContextId) :
        Set(setSelectedNodes(state, << nodeId >>))

Selection_clearSelection == Set(clearSelection(state))

Palette_togglePalette == Set(togglePalette(state))

ValidationPanel_togglePropertiesPanel == Set(togglePropertiesPanel(state))

Sidebar_setActiveContext ==
    \E id \in Keys(state.contexts) : Set(setActiveContext(state, id))

Selection_handleCreateContext ==
    SelectionEdit(createContext(state, nextId, ContextName(Len(state.contexts) + 1)), 1)

Selection_handleDelete ==
    \E id \in Keys(state.contexts) : SelectionEdit(deleteContext(state, id), 0)

Selection_deleteNode ==
    \E contextId \in Keys(state.contexts) :
      \E nodeId \in NodeIdsOf(contextId) :
        SelectionEdit(deleteNode(state, contextId, nodeId), 0)

Selection_deleteMorphism ==
    \E contextId \in Keys(state.contexts) :
      \E morphismId \in MorphismIdsOf(contextId) :
        SelectionEdit(deleteMorphism(state, contextId, morphismId), 0)

SelectionNext ==
    \/ Selection_clearSelection
    \/ ValidationPanel_handleNavigateToNode
    \/ Canvas_onSelectionChange
    \/ Palette_togglePalette
    \/ ValidationPanel_togglePropertiesPanel
    \/ Sidebar_setActiveContext
    \/ Selection_handleCreateContext
    \/ Selection_handleDelete
    \/ Selection_deleteNode
    \/ Selection_deleteMorphism
    \/ Undo
    \/ Redo

SelectionSpec == SelectionInit /\ [][SelectionNext]_vars

\* the selection, the panel flags and the validation result of a store state
Presentation(s) ==
    [ selectedNodeIds |-> s.selectedNodeIds,
      selectedEdgeIds |-> s.selectedEdgeIds,
      isPaletteOpen |-> s.isPaletteOpen,
      isPropertiesPanelOpen |-> s.isPropertiesPanelOpen,
      validationResult |-> s.validationResult ]

\* C26: undo and redo affect only model data: they leave the selection,
\* the panel flags and validationResult as they were just before the call
C26_UndoRedoKeepPresentation ==
    [][ (IsUndo \/ IsRedo) => Presentation(state') = Presentation(state) ]_vars

\* C30: when the selection is only ever set to ids of the active context,
\* in every reachable state each id in selectedNodeIds is a node of the
\* active context and each id in selectedEdgeIds is a morphism of it
C30_SelectionIntegrity ==
    /\ \A id \in Range(state.selectedNodeIds) :
          id \in NodeIdsOf(state.activeContextId)
    /\ \A id \in Range(state.selectedEdgeIds) :
          id \in MorphismIdsOf(state.activeContextId)

(***************************************************************************)
(* Contexts and context maps: creating, deleting and activating contexts,  *)
(* adding, updating and deleting context maps, undo, redo and reset.       *)
(***************************************************************************)
MaxContextEdits == 1

addContextMap(s, id, map) ==
    [ s EXCEPT !.contextMaps =
        Append(s.contextMaps,
               ContextMap(id, map.name, map.sourceContextId, map.targetContextId,
                          map.pattern, map.mappings)) ]

updateContextMap(s, mapId, updates) ==
    [ s EXCEPT !.contextMaps =
        [ i \in DOMAIN s.contextMaps |->
            IF i = (IF HasKey(s.contextMaps, mapId)
                    THEN IndexOf(s.contextMaps, mapId) ELSE 0)
            THEN ObjectAssign(s.contextMaps[i], updates)
            ELSE s.contextMaps[i] ] ]

deleteContextMap(s, mapId) ==
    [ s EXCEPT !.contextMaps = DeleteKey(s.contextMaps, mapId) ]

\* the stored models: three empty contexts with two context maps between
\* them, and a single empty context
ContextSeeds ==
    { [ contexts |-> << ContextData(1, ContextName(1), << >>, << >>),
                        ContextData(2, ContextName(2), << >>, << >>),
                        ContextData(3, ContextName(3), << >>, << >>) >>,
        contextMaps |-> << ContextMap(4, <<"M">>, 1, 2, "Conformist", << >>),
                           ContextMap(5, <<"N">>, 2, 3, "SharedKernel", << >>) >> ],
      [ contexts |-> << ContextData(1, ContextName(1), << >>, << >>) >>,
        contextMaps |-> << >> ] }

ContextInit ==
    /\ \E seed \in ContextSeeds :
          state = [ initialState EXCEPT !.contexts = seed.contexts,
                                       !.contextMaps = seed.contextMaps,
                                       !.activeContextId = 1 ]
    /\ nextId = 6
    /\ history = [ past |-> << >>, future |-> << >> ]
    /\ edits = 0
    /\ view = NotRendered
    /\ core = NoCore

ContextEdit(s2, n) ==
    /\ edits < MaxContextEdits
    /\ state' = s2
    /\ history' = saveToHistory(history, state)
    /\ nextId' = nextId + n
    /\ edits' = edits + 1
    /\ UNCHANGED core
    /\ Stale

Context_createContext ==
    ContextEdit(createContext(state, nextId, ContextName(Len(state.contexts) + 1)), 1)

Context_deleteContext ==
    \E id \in Keys(state.contexts) \cup { NoSuchId } :
        ContextEdit(deleteContext(state, id), 0)

\* setActiveContext called with null or with the id of an existing context
Context_setActiveContext ==
    \E id \in Keys(state.contexts) \cup { NullId } :
        Set(setActiveContext(state, id))

\* addContextMap called with the ids of existing contexts
Context_addContextMap ==
    \E source \in Keys(state.contexts) :
      \E target \in Keys(state.contexts) :
        ContextEdit(addContextMap(state, nextId,
                      [ name |-> <<"M">>, sourceContextId |-> source,
                        targetContextId |-> target, pattern |-> "Conformist",
                        mappings |-> << >> ]), 1)

\* the updates of a context map: a new name, or another existing context as
\* its source or as its target
ContextMapUpdates ==
    { [ name |-> <<"N">> ] }
    \cup { [ sourceContextId |-> c ] : c \in Keys(state.contexts) }
    \cup { [ targetContextId |-> c ] : c \in Keys(state.contexts) }

Context_updateContextMap ==
    \E mapId \in Keys(state.contextMaps) \cup { NoSuchId } :
      \E updates \in ContextMapUpdates :
        ContextEdit(updateContextMap(state, mapId, updates), 0)

Context_deleteContextMap ==
    \E mapId \in Keys(state.contextMaps) \cup { NoSuchId } :
        ContextEdit(deleteContextMap(state, mapId), 0)

Context_reset ==
    /\ state' = initialState
    /\ history' = [ past |-> << >>, future |-> << >> ]
    /\ Stale
    /\ UNCHANGED << nextId, edits, core >>

ContextNext ==
    \/ Context_createContext
    \/ Context_deleteContext
    \/ Context_setActiveContext
    \/ Context_addContextMap
    \/ Context_updateContextMap
    \/ Context_deleteContextMap
    \/ Undo
    \/ Redo
    \/ Context_reset

ContextSpec == ContextInit /\ [][ContextNext]_vars

\* the step is deleteContext(contextId)
IsDeleteContext(contextId) ==
    /\ IsEdit
    /\ state' = deleteContext(state, contextId)

\* C31: when setActiveContext is only called with null or the id of an
\* existing context, in every reachable state activeContextId is null or a
\* key of contexts; deleting the active context makes another remaining
\* context active, or null when none remains, and deleting a context that
\* is not active leaves activeContextId unchanged
C31_ActiveContextValid ==
    /\ [](\/ state.activeContextId = NullId
          \/ state.activeContextId \in Keys(state.contexts))
    /\ [][ \A contextId \in Keys(state.contexts) \cup { NoSuchId } :
             IsDeleteContext(contextId) =>
               IF state.activeContextId = contextId
               THEN IF Keys(state.contexts) \ { contextId } = {}
                    THEN state'.activeContextId = NullId
                    ELSE state'.activeContextId \in Keys(state.contexts) \ { contextId }
               ELSE state'.activeContextId = state.activeContextId ]_vars

\* the active context has been deleted and another context of the store is
\* active now
C31_Witness ==
    /\ Len(history.past) = 1
    /\ history.past[1].activeContextId # NullId
    /\ history.past[1].activeContextId \in Keys(history.past[1].contexts)
    /\ history.past[1].activeContextId \notin Keys(state.contexts)
    /\ state.activeContextId \in Keys(state.contexts)

\* the context maps that have the context as source or target
MapsTouching(maps, contextId) ==
    { m \in Range(maps) :
        m.sourceContextId = contextId \/ m.targetContextId = contextId }

\* C32: deleteContext(c) removes exactly the context maps whose source or
\* target context is c and keeps all others; and when context maps are only
\* added or updated with ids of existing contexts, in every reachable
\* state, after undo and redo too, every context map's sourceContextId and
\* targetContextId are keys of contexts
C32_ContextMapIntegrity ==
    /\ [](\A i \in DOMAIN state.contextMaps :
            /\ state.contextMaps[i].sourceContextId \in Keys(state.contexts)
            /\ state.contextMaps[i].targetContextId \in Keys(state.contexts))
    /\ [][ \A contextId \in Keys(state.contexts) \cup { NoSuchId } :
             IsDeleteContext(contextId) =>
               /\ Range(state'.contextMaps) =
                     Range(state.contextMaps) \ MapsTouching(state.contextMaps, contextId)
               /\ Len(state'.contextMaps) = Cardinality(Range(state'.contextMaps)) ]_vars

\* a context with a context map attached has been deleted: the map is gone
\* with it and a map between two other contexts is still there
C32_Witness ==
    /\ Len(history.past) = 1
    /\ state.contextMaps # << >>
    /\ \E contextId \in Keys(history.past[1].contexts) \ Keys(state.contexts) :
          /\ MapsTouching(history.past[1].contextMaps, contextId) # {}
          /\ MapsTouching(state.contextMaps, contextId) = {}

====
